---- MODULE Spec2Model ----
(***************************************************************************)
(* Model of the GraphQL schema analysis of fuel-indexer-lib:               *)
(*   packages/fuel-indexer-lib/src/graphql/parser.rs  ParsedGraphQLSchema  *)
(*   packages/fuel-indexer-lib/src/graphql/mod.rs     GraphQLSchema, ...   *)
(*   packages/fuel-indexer-lib/src/lib.rs             join_table_name      *)
(*                                                                         *)
(* ParsedGraphQLSchema::new is a single forward pass over the definitions  *)
(* of the parsed document.  The variables are the locals of that function, *)
(* one action is one iteration of its definition loop.                     *)
(***************************************************************************)
EXTENDS Integers, Sequences, FiniteSets, TLC

\* ------------------------------------------------------------------------
\* Bounds
\* ------------------------------------------------------------------------

\* Largest number of declarations in a generated user document.
MaxDefs == 3

\* Longest name handed to join_table_name in NameSpec.
MaxNameLen == 2

\* ------------------------------------------------------------------------
\* Generic helpers: HashMap / Option
\* ------------------------------------------------------------------------

EmptyMap == [k \in {} |-> 0]

Put(m, k, v) == [x \in (DOMAIN m) \cup {k} |-> IF x = k THEN v ELSE m[x]]

Remove(m, k) == [x \in (DOMAIN m) \ {k} |-> m[x]]

None == <<>>

Some(x) == <<x>>

Range(s) == {s[n] : n \in 1..Len(s)}

\* ------------------------------------------------------------------------
\* Strings
\* ------------------------------------------------------------------------

\* str::to_lowercase on the names that occur in the documents of this model.
to_lowercase(s) ==
    CASE s = "Account"             -> "account"
      [] s = "AccountLabel"        -> "accountlabel"
      [] s = "User"                -> "user"
      [] s = "Loser"               -> "loser"
      [] s = "Metadata"            -> "metadata"
      [] s = "Person"              -> "person"
      [] s = "Wallet"              -> "wallet"
      [] s = "Safe"                -> "safe"
      [] s = "Vault"               -> "vault"
      [] s = "Storage"             -> "storage"
      [] s = "Node"                -> "node"
      [] s = "Filter"              -> "filter"
      [] s = "Custom"              -> "custom"
      [] s = "IndexMetadataEntity" -> "indexmetadataentity"
      [] s = "ID"                  -> "id"
      [] s = "UInt8"               -> "uint8"
      [] s = "Address"             -> "address"
      [] s = "Charfield"           -> "charfield"
      [] s = "Bytes32"             -> "bytes32"
      [] OTHER                     -> s

\* IdCol::to_lowercase_str()
IdCol == "id"

field_id(typdef_name, field_name) == typdef_name \o "." \o field_name

\* ------------------------------------------------------------------------
\* The AST handed over by async_graphql_parser
\* ------------------------------------------------------------------------

\* A type reference: named type `base`, wrapped in `depth` lists; `nullable`
\* is the nullability of the outermost type.
Ty(base, depth, nullable) == [base |-> base, depth |-> depth, nullable |-> nullable]

Req(base) == Ty(base, 0, FALSE)

Opt(base) == Ty(base, 0, TRUE)

ListOf(base) == Ty(base, 1, FALSE)

Directive(name, arguments) == [name |-> name, arguments |-> arguments]

Field(name, ty) == [name |-> name, ty |-> ty, directives |-> <<>>]

JoinField(name, ty, column) ==
    [name |-> name, ty |-> ty,
     directives |-> <<Directive("join", << <<"on", column>> >>)>>]

TypeDef(kind, name, directives, fields, values, members) ==
    [def |-> "Type", kind |-> kind, name |-> name, directives |-> directives,
     fields |-> fields, values |-> values, members |-> members]

Entity == <<Directive("entity", <<>>)>>

VirtualEntity == <<Directive("entity", << <<"virtual", "true">> >>)>>

NonVirtualEntity == <<Directive("entity", << <<"virtual", "false">> >>)>>

Object(name, directives, fields) ==
    TypeDef("Object", name, directives, fields, <<>>, <<>>)

Enum(name, values) == TypeDef("Enum", name, <<>>, <<>>, values, <<>>)

Union(name, members) == TypeDef("Union", name, <<>>, <<>>, <<>>, members)

\* TypeSystemDefinition::Schema / TypeSystemDefinition::Directive
OtherDef(def, name) ==
    [def |-> def, kind |-> "-", name |-> name, directives |-> <<>>,
     fields |-> <<>>, values |-> <<>>, members |-> <<>>]

\* Number of '[' and ']' in the Display form of a type.
BracketCount(ty) == 2 * ty.depth

\* Variant: any bracketed type is a list.
is_list_type_AnyDepth(f) == BracketCount(f.ty) >= 2

is_list_type(f) == BracketCount(f.ty) = 2

field_type_name(f) == f.ty.base

RECURSIVE Wrap(_, _)
Wrap(base, depth) == IF depth = 0 THEN base ELSE "[" \o Wrap(base, depth - 1) \o "]"

\* f.ty.to_string().replace('!', "")
list_field_type_name(f) == Wrap(f.ty.base, f.ty.depth)

\* ------------------------------------------------------------------------
\* graphql/mod.rs
\* ------------------------------------------------------------------------

\* The Display form of a type split into its name and its decorations; a
\* string without decorations is one token.
Tokens(s) ==
    CASE s = "[Account!]!"      -> <<"[", "Account", "!", "]", "!">>
      [] s = "[Account]"        -> <<"[", "Account", "]">>
      [] s = "Account!"         -> <<"Account", "!">>
      [] s = "[User!]!"         -> <<"[", "User", "!", "]", "!">>
      [] s = "ID!"              -> <<"ID", "!">>
      [] s = "[AccountLabel!]!" -> <<"[", "AccountLabel", "!", "]", "!">>
      [] s = "[Charfield]!"     -> <<"[", "Charfield", "]", "!">>
      [] s = "[[UInt8!]]"       -> <<"[", "[", "UInt8", "!", "]", "]">>
      [] OTHER                  -> <<s>>

RECURSIVE Concat(_)
Concat(tokens) ==
    IF tokens = <<>> THEN "" ELSE Head(tokens) \o Concat(Tail(tokens))

\* Variant: only '!' is removed.
strip_decorations_OnlyBang(s) ==
    Concat(SelectSeq(Tokens(s), LAMBDA c : c # "!"))

\* str::replace(['[', ']', '!'], "") on the type strings kept in
\* field_type_mappings.
strip_decorations(s) ==
    Concat(SelectSeq(Tokens(s), LAMBDA c : c \notin {"[", "]", "!"}))

JoinDirectives(f) == SelectSeq(f.directives, LAMBDA d : d.name = "join")

\* Returns (ref_coltype, ref_colname, ref_tablename), or the message of the
\* `expect` that aborts.
extract_foreign_key_info(f, ftm) ==
    IF JoinDirectives(f) = <<>>
    THEN [panic |-> "", coltype |-> "UInt8", colname |-> IdCol,
          tablename |-> to_lowercase(field_type_name(f))]
    ELSE LET d == Head(JoinDirectives(f))
             typdef_name == field_type_name(f)
         IN  IF d.arguments = <<>>
             THEN [panic |-> "Expected directive info", coltype |-> "",
                   colname |-> "", tablename |-> ""]
             ELSE LET ref_field_name == d.arguments[Len(d.arguments)][2]
                      fk_fid == field_id(typdef_name, ref_field_name)
                  IN  IF fk_fid \notin DOMAIN ftm
                      THEN [panic |-> "Field ID not found in schema",
                            coltype |-> "", colname |-> "", tablename |-> ""]
                      ELSE [panic |-> "",
                            coltype |-> strip_decorations(ftm[fk_fid]),
                            colname |-> ref_field_name,
                            tablename |-> to_lowercase(typdef_name)]

\* IndexMetadata::schema_fragment(), as parsed.
IndexMetadataEntity ==
    Object("IndexMetadataEntity", Entity,
           <<Field("id", Req("ID")), Field("time", Req("UInt8")),
             Field("block_height", Req("UInt8")),
             Field("block_id", Req("Bytes32"))>>)

\* Schema text is represented by what parse_schema makes of it: whether it
\* parses, and the definitions it yields.
Text(parses, defs) == [parses |-> parses, defs |-> defs]

inject_native_entities_into_schema(schema) ==
    Text(schema.parses, schema.defs \o <<IndexMetadataEntity>>)

\* schema_version: the SHA-256 digest of the text, represented by the text
\* that was hashed.
schema_version(schema) == [sha256 |-> schema]

\* GraphQLSchema::new(content)
GraphQLSchema_new(content) ==
    [schema |-> inject_native_entities_into_schema(content),
     version |-> schema_version(inject_native_entities_into_schema(content))]

\* Variant: the version is derived from the text with the fragment appended.
GraphQLSchema_from_HashesInjected(s) ==
    [schema |-> inject_native_entities_into_schema(s),
     version |-> schema_version(inject_native_entities_into_schema(s))]

\* impl From<String> for GraphQLSchema
GraphQLSchema_from(s) ==
    [schema |-> inject_native_entities_into_schema(s),
     version |-> schema_version(s)]

\* parse_schema(BASE_SCHEMA): the scalar declarations of base.graphql that the
\* documents of this model use.
BaseAst ==
    <<TypeDef("Scalar", "ID", <<>>, <<>>, <<>>, <<>>),
      TypeDef("Scalar", "UInt8", <<>>, <<>>, <<>>, <<>>),
      TypeDef("Scalar", "Address", <<>>, <<>>, <<>>, <<>>),
      TypeDef("Scalar", "Charfield", <<>>, <<>>, <<>>, <<>>),
      TypeDef("Scalar", "Bytes32", <<>>, <<>>, <<>>, <<>>)>>

\* ------------------------------------------------------------------------
\* graphql/parser.rs
\* ------------------------------------------------------------------------

\* Variant: the two sides of the relation are exchanged.
JoinTableMeta_new_Swapped(parent_typedef_name, parent_column_name, child_typedef_name, child_column_name, child_position) ==
    [parent |-> [relation_type |-> "Parent",
                 typedef_name |-> child_typedef_name,
                 column_name |-> child_column_name,
                 child_position |-> child_position],
     child  |-> [relation_type |-> "Child",
                 typedef_name |-> parent_typedef_name,
                 column_name |-> parent_column_name,
                 child_position |-> None]]

JoinTableMeta_new(parent_typedef_name, parent_column_name, child_typedef_name, child_column_name, child_position) ==
    [parent |-> [relation_type |-> "Parent",
                 typedef_name |-> parent_typedef_name,
                 column_name |-> parent_column_name,
                 child_position |-> child_position],
     child  |-> [relation_type |-> "Child",
                 typedef_name |-> child_typedef_name,
                 column_name |-> child_column_name,
                 child_position |-> None]]

\* Variant: the plural 's' of the two sides is left out.
join_table_name_NoPlural(a, b) == a \o "_" \o b

\* lib.rs join_table_name: format!("{}s_{}s", a, b).
join_table_name(a, b) == a \o "s_" \o b \o "s"

\* join_table_name on names given as sequences of characters.
join_table_name_chars(a, b) == a \o <<"s", "_">> \o b \o <<"s">>

\* str::split('_'): the tokens between the underscores, at least one.
RECURSIVE Split(_)
Split(s) ==
    IF \A n \in 1..Len(s) : s[n] # "_"
    THEN <<s>>
    ELSE LET n == CHOOSE k \in 1..Len(s) :
                      s[k] = "_" /\ \A j \in 1..(k - 1) : s[j] # "_"
         IN  <<SubSeq(s, 1, n - 1)>> \o Split(SubSeq(s, n + 1, Len(s)))

\* Variant: the plural 's' is not trimmed.
join_table_typedefs_name_NoTrim(name) ==
    LET parts == Split(name)
    IN  IF Len(parts) < 2
        THEN [panic |-> TRUE, pair |-> <<>>]
        ELSE [panic |-> FALSE, pair |-> <<parts[1], parts[2]>>]

\* lib.rs join_table_typedefs_name: the first two tokens, each without its
\* last character.  `unwrap` aborts when there is no second token, and the
\* slice a[0..a.len() - 1] aborts on an empty token.
join_table_typedefs_name(name) ==
    LET parts == Split(name)
    IN  IF Len(parts) < 2 \/ parts[1] = <<>> \/ parts[2] = <<>>
        THEN [panic |-> TRUE, pair |-> <<>>]
        ELSE [panic |-> FALSE,
              pair |-> <<SubSeq(parts[1], 1, Len(parts[1]) - 1),
                         SubSeq(parts[2], 1, Len(parts[2]) - 1)>>]

parent_table_name(self) == to_lowercase(self.parent.typedef_name)

child_table_name(self) == to_lowercase(self.child.typedef_name)

\* JoinTableMeta::table_name
table_name(self) ==
    join_table_name(parent_table_name(self), child_table_name(self))

\* The type names of build_schema_types_set: every TypeSystemDefinition::Type.
build_schema_types_set(defs) ==
    {defs[n].name : n \in {k \in 1..Len(defs) : defs[k].def = "Type"}}

is_entity(t) == \E d \in Range(t.directives) : d.name = "entity"

\* Any argument named "virtual" on any directive of the type.
has_virtual_argument(t) ==
    \E d \in Range(t.directives) : \E a \in Range(d.arguments) : a[1] = "virtual"

\* entry(k).or_insert_with(Vec::new).push(v)
PushEntry(m, k, v) ==
    Put(m, k, Append(IF k \in DOMAIN m THEN m[k] ELSE <<>>, v))

\* entry(k).or_insert_with(BTreeMap::new).insert(f, v)
InsertEntry(m, k, f, v) ==
    Put(m, k, Put(IF k \in DOMAIN m THEN m[k] ELSE EmptyMap, f, v))

\* Variant: the gate does not consult the virtual set.
ForeignKeyGate_NoVirtual(L, ftype) ==
    /\ ftype \in L.parsed_typedef_names
    /\ ftype \notin L.scalar_names
    /\ ftype \notin L.enum_names

\* Variant: the gate consults the pre-scanned type names.
ForeignKeyGate_Prescanned(L, ftype) ==
    /\ ftype \in L.type_names
    /\ ftype \notin L.scalar_names
    /\ ftype \notin L.enum_names
    /\ ftype \notin L.virtual_type_names

\* The foreign-key gate applied to a field type while the pass is running
\* ("manual version of is_possible_foreign_key").
ForeignKeyGate(L, ftype) ==
    /\ ftype \in L.parsed_typedef_names
    /\ ftype \notin L.scalar_names
    /\ ftype \notin L.enum_names
    /\ ftype \notin L.virtual_type_names

\* Variant: a list-typed field yields a join-table entry only.
ObjectField_ListNotMapped(L, t, i) ==
    LET field == t.fields[i + 1]
        obj_name == t.name
        field_name == field.name
        fid == field_id(obj_name, field_name)
        L1 == [L EXCEPT !.object_ordered_fields =
                            PushEntry(@, obj_name, <<field, i>>)]
        L2 == IF is_list_type(field)
              THEN [L1 EXCEPT !.list_field_types =
                                  @ \cup {list_field_type_name(field)},
                              !.list_type_defs = Put(@, obj_name, t)]
              ELSE L1
        L3 == IF has_virtual_argument(t)
              THEN [L2 EXCEPT !.virtual_type_names = @ \cup {obj_name}]
              ELSE L2
        ftype == field_type_name(field)
        fk == extract_foreign_key_info(field, L3.field_type_mappings)
        L4 == IF is_list_type(field)
              THEN [L3 EXCEPT !.join_table_meta =
                        PushEntry(@, obj_name,
                                  JoinTableMeta_new(to_lowercase(obj_name), IdCol,
                                                    fk.tablename, fk.colname,
                                                    Some(i)))]
              ELSE L3
        L5 == IF is_list_type(field)
              THEN L4
              ELSE [L4 EXCEPT !.foreign_key_mappings =
                        InsertEntry(@, to_lowercase(obj_name), field_name,
                                    <<to_lowercase(ftype), fk.colname>>)]
        L6 == IF ForeignKeyGate(L3, ftype) THEN L5 ELSE L3
    IN  IF ForeignKeyGate(L3, ftype) /\ fk.panic # ""
        THEN [L3 EXCEPT !.panic = fk.panic]
        ELSE [L6 EXCEPT
                !.parsed_typedef_names = @ \cup {field_name},
                !.field_mapping = Put(@, field_name, ftype),
                !.field_type_optionality = Put(@, fid, field.ty.nullable),
                !.field_type_mappings = Put(@, fid, ftype),
                !.field_defs = Put(@, fid, <<field, obj_name>>)]

\* Variant: the ordinal kept with a field is one-based.
ObjectField_OneBasedOrdinal(L, t, i) ==
    LET field == t.fields[i + 1]
        obj_name == t.name
        field_name == field.name
        fid == field_id(obj_name, field_name)
        L1 == [L EXCEPT !.object_ordered_fields =
                            PushEntry(@, obj_name, <<field, i + 1>>)]
        L2 == IF is_list_type(field)
              THEN [L1 EXCEPT !.list_field_types =
                                  @ \cup {list_field_type_name(field)},
                              !.list_type_defs = Put(@, obj_name, t)]
              ELSE L1
        L3 == IF has_virtual_argument(t)
              THEN [L2 EXCEPT !.virtual_type_names = @ \cup {obj_name}]
              ELSE L2
        ftype == field_type_name(field)
        fk == extract_foreign_key_info(field, L3.field_type_mappings)
        L4 == IF is_list_type(field)
              THEN [L3 EXCEPT !.join_table_meta =
                        PushEntry(@, obj_name,
                                  JoinTableMeta_new(to_lowercase(obj_name), IdCol,
                                                    fk.tablename, fk.colname,
                                                    Some(i)))]
              ELSE L3
        L5 == [L4 EXCEPT !.foreign_key_mappings =
                  InsertEntry(@, to_lowercase(obj_name), field_name,
                              <<to_lowercase(ftype), fk.colname>>)]
        L6 == IF ForeignKeyGate(L3, ftype) THEN L5 ELSE L3
    IN  IF ForeignKeyGate(L3, ftype) /\ fk.panic # ""
        THEN [L3 EXCEPT !.panic = fk.panic]
        ELSE [L6 EXCEPT
                !.parsed_typedef_names = @ \cup {field_name},
                !.field_mapping = Put(@, field_name, ftype),
                !.field_type_optionality = Put(@, fid, field.ty.nullable),
                !.field_type_mappings = Put(@, fid, ftype),
                !.field_defs = Put(@, fid, <<field, obj_name>>)]

\* One iteration of the field loop of the TypeKind::Object branch, for the
\* field with ordinal i (zero-based) of type definition t.  L holds the
\* locals of ParsedGraphQLSchema::new plus the field_mapping of the object;
\* L.panic is the message of an `expect` that failed.
ObjectField(L, t, i) ==
    LET field == t.fields[i + 1]
        obj_name == t.name
        field_name == field.name
        fid == field_id(obj_name, field_name)
        L1 == [L EXCEPT !.object_ordered_fields =
                            PushEntry(@, obj_name, <<field, i>>)]
        L2 == IF is_list_type(field)
              THEN [L1 EXCEPT !.list_field_types =
                                  @ \cup {list_field_type_name(field)},
                              !.list_type_defs = Put(@, obj_name, t)]
              ELSE L1
        L3 == IF has_virtual_argument(t)
              THEN [L2 EXCEPT !.virtual_type_names = @ \cup {obj_name}]
              ELSE L2
        ftype == field_type_name(field)
        fk == extract_foreign_key_info(field, L3.field_type_mappings)
        L4 == IF is_list_type(field)
              THEN [L3 EXCEPT !.join_table_meta =
                        PushEntry(@, obj_name,
                                  JoinTableMeta_new(to_lowercase(obj_name), IdCol,
                                                    fk.tablename, fk.colname,
                                                    Some(i)))]
              ELSE L3
        L5 == [L4 EXCEPT !.foreign_key_mappings =
                  InsertEntry(@, to_lowercase(obj_name), field_name,
                              <<to_lowercase(ftype), fk.colname>>)]
        L6 == IF ForeignKeyGate(L3, ftype) THEN L5 ELSE L3
    IN  IF ForeignKeyGate(L3, ftype) /\ fk.panic # ""
        THEN [L3 EXCEPT !.panic = fk.panic]
        ELSE [L6 EXCEPT
                !.parsed_typedef_names = @ \cup {field_name},
                !.field_mapping = Put(@, field_name, ftype),
                !.field_type_optionality = Put(@, fid, field.ty.nullable),
                !.field_type_mappings = Put(@, fid, ftype),
                !.field_defs = Put(@, fid, <<field, obj_name>>)]

\* The field loop of the TypeKind::Object branch, from ordinal i on.
RECURSIVE ObjectFields(_, _, _)
ObjectFields(L, t, i) ==
    IF i >= Len(t.fields) \/ L.panic # ""
    THEN L
    ELSE ObjectFields(ObjectField(L, t, i), t, i + 1)

\* Variant: the field mapping of the object is not stored.
ParseObject_NoFieldMapping(L, t) ==
    LET L1 == [L EXCEPT !.type_defs = Put(@, t.name, t),
                        !.objects = Put(@, t.name, t),
                        !.parsed_typedef_names = @ \cup {t.name},
                        !.field_mapping = EmptyMap]
        L2 == ObjectFields(L1, t, 0)
    IN  IF L2.panic # ""
        THEN L2
        ELSE [L2 EXCEPT !.field_mapping = EmptyMap]

\* The TypeKind::Object branch for an entity.
ParseObject(L, t) ==
    LET L1 == [L EXCEPT !.type_defs = Put(@, t.name, t),
                        !.objects = Put(@, t.name, t),
                        !.parsed_typedef_names = @ \cup {t.name},
                        !.field_mapping = EmptyMap]
        L2 == ObjectFields(L1, t, 0)
    IN  IF L2.panic # ""
        THEN L2
        ELSE [L2 EXCEPT !.object_field_mappings = Put(@, t.name, L2.field_mapping),
                        !.field_mapping = EmptyMap]

\* The value loop of the TypeKind::Enum branch, from value n (one-based) on.
RECURSIVE EnumValues(_, _, _)
EnumValues(L, t, n) ==
    IF n > Len(t.values)
    THEN L
    ELSE LET val_name == t.values[n]
             val_id == field_id(t.name, val_name)
         IN  EnumValues([L EXCEPT
                 !.object_field_mappings = InsertEntry(@, t.name, val_name, t.name),
                 !.field_type_mappings = Put(@, val_id, t.name)], t, n + 1)

\* The TypeKind::Enum branch.
ParseEnum(L, t) ==
    EnumValues([L EXCEPT !.type_defs = Put(@, t.name, t),
                         !.virtual_type_names = @ \cup {t.name},
                         !.enum_names = @ \cup {t.name}], t, 1)

\* GraphQLSchemaValidator::check_derived_union_is_well_formed: the members of
\* a union are either all virtual or all non-virtual.  Its result is not used
\* by the caller, so a violation can only abort.
check_derived_union_is_well_formed(t, virtual_type_names) ==
    LET virtual == {n \in 1..Len(t.members) : t.members[n] \in virtual_type_names}
    IN  IF virtual = {} \/ virtual = 1..Len(t.members)
        THEN ""
        ELSE "Inconsistent use of virtual union types"

\* Variant: a field name seen in an earlier member is processed again.
UnionMemberField_NoDedup(U, union_name, f) ==
    LET ftype == field_type_name(f)
        fid == field_id(union_name, f.name)
        fk == extract_foreign_key_info(f, U.L.field_type_mappings)
        gate == ForeignKeyGate(U.L, ftype)
        L1 == IF gate /\ is_list_type(f)
              THEN [U.L EXCEPT !.join_table_meta =
                        PushEntry(@, union_name,
                                  JoinTableMeta_new(to_lowercase(union_name), IdCol,
                                                    fk.tablename, fk.colname,
                                                    Some(U.child_position)))]
              ELSE U.L
    IN  IF gate /\ fk.panic # ""
        THEN [U EXCEPT !.L.panic = fk.panic,
                       !.processed_fields = @ \cup {fid}]
        ELSE [L |-> L1,
              processed_fields |-> U.processed_fields \cup {fid},
              child_position |-> U.child_position + 1]

\* Variant: the counter advances only when an entry is pushed.
UnionMemberField_CountsEntries(U, union_name, f) ==
    LET ftype == field_type_name(f)
        fid == field_id(union_name, f.name)
        fk == extract_foreign_key_info(f, U.L.field_type_mappings)
        gate == ForeignKeyGate(U.L, ftype)
        L1 == IF gate /\ is_list_type(f)
              THEN [U.L EXCEPT !.join_table_meta =
                        PushEntry(@, union_name,
                                  JoinTableMeta_new(to_lowercase(union_name), IdCol,
                                                    fk.tablename, fk.colname,
                                                    Some(U.child_position)))]
              ELSE U.L
    IN  IF fid \in U.processed_fields
        THEN U
        ELSE IF gate /\ fk.panic # ""
        THEN [U EXCEPT !.L.panic = fk.panic,
                       !.processed_fields = @ \cup {fid}]
        ELSE [L |-> L1,
              processed_fields |-> U.processed_fields \cup {fid},
              child_position |-> IF gate /\ is_list_type(f)
                                 THEN U.child_position + 1
                                 ELSE U.child_position]

\* One call of the closure over a member's fields in the first member loop of
\* the TypeKind::Union branch.  U carries the locals L, the set
\* processed_fields and the counter child_position.
UnionMemberField(U, union_name, f) ==
    LET ftype == field_type_name(f)
        fid == field_id(union_name, f.name)
        fk == extract_foreign_key_info(f, U.L.field_type_mappings)
        gate == ForeignKeyGate(U.L, ftype)
        L1 == IF gate /\ is_list_type(f)
              THEN [U.L EXCEPT !.join_table_meta =
                        PushEntry(@, union_name,
                                  JoinTableMeta_new(to_lowercase(union_name), IdCol,
                                                    fk.tablename, fk.colname,
                                                    Some(U.child_position)))]
              ELSE U.L
    IN  IF fid \in U.processed_fields
        THEN U
        ELSE IF gate /\ fk.panic # ""
        THEN [U EXCEPT !.L.panic = fk.panic,
                       !.processed_fields = @ \cup {fid}]
        ELSE [L |-> L1,
              processed_fields |-> U.processed_fields \cup {fid},
              child_position |-> U.child_position + 1]

RECURSIVE UnionMemberFields(_, _, _, _)
UnionMemberFields(U, union_name, fields, n) ==
    IF n > Len(fields) \/ U.L.panic # ""
    THEN U
    ELSE UnionMemberFields(UnionMemberField(U, union_name, fields[n]),
                           union_name, fields, n + 1)

\* Variant: the join-table entries of the member itself are kept.
UnionMember_KeepsMemberEntry(U, union_name, member_name) ==
    IF member_name \notin DOMAIN U.L.objects
    THEN [U EXCEPT !.L.panic =
              "Union member not found in parsed TypeDefinitions."]
    ELSE UnionMemberFields(U, union_name, U.L.objects[member_name].fields, 1)

\* One call of the closure over the members in the first member loop.
UnionMember(U, union_name, member_name) ==
    LET U1 == [U EXCEPT !.L.join_table_meta = Remove(@, member_name)]
    IN  IF member_name \notin DOMAIN U1.L.objects
        THEN [U1 EXCEPT !.L.panic =
                  "Union member not found in parsed TypeDefinitions."]
        ELSE UnionMemberFields(U1, union_name,
                               U1.L.objects[member_name].fields, 1)

RECURSIVE UnionMembers(_, _, _)
UnionMembers(U, t, n) ==
    IF n > Len(t.members) \/ U.L.panic # ""
    THEN U
    ELSE UnionMembers(UnionMember(U, t.name, t.members[n]), t, n + 1)

\* Variant: the nullability is not cached under the name of the union.
RECURSIVE UnionCacheFields_NoOptionality(_, _, _, _)
UnionCacheFields_NoOptionality(L, t, m, n) ==
    LET member_name == t.members[m]
        fields == L.objects[member_name].fields
        f == fields[n]
        fid == field_id(t.name, f.name)
    IN  IF n > Len(fields)
        THEN L
        ELSE UnionCacheFields_NoOptionality(
                 [L EXCEPT
                    !.field_defs = Put(@, fid, <<f, member_name>>),
                    !.field_type_mappings = Put(@, fid, field_type_name(f)),
                    !.object_field_mappings =
                        InsertEntry(@, t.name, f.name, field_type_name(f))],
                 t, m, n + 1)

\* The second member loop: the fields of member number m, from field n on,
\* are cached under the name of the union.
RECURSIVE UnionCacheFields(_, _, _, _)
UnionCacheFields(L, t, m, n) ==
    LET member_name == t.members[m]
        fields == L.objects[member_name].fields
        f == fields[n]
        fid == field_id(t.name, f.name)
    IN  IF n > Len(fields)
        THEN L
        ELSE UnionCacheFields(
                 [L EXCEPT
                    !.field_defs = Put(@, fid, <<f, member_name>>),
                    !.field_type_mappings = Put(@, fid, field_type_name(f)),
                    !.object_field_mappings =
                        InsertEntry(@, t.name, f.name, field_type_name(f)),
                    !.field_type_optionality = Put(@, fid, f.ty.nullable)],
                 t, m, n + 1)

RECURSIVE UnionCacheMembers(_, _, _)
UnionCacheMembers(L, t, m) ==
    IF m > Len(t.members)
    THEN L
    ELSE UnionCacheMembers(UnionCacheFields(L, t, m, 1), t, m + 1)

\* Variant: the foreign keys of the members are dropped like their
\* join-table entries.
ParseUnion_DropsMemberKeys(L, t) ==
    LET L1 == [L EXCEPT !.foreign_key_mappings =
                            [k \in DOMAIN @ \ {to_lowercase(m) : m \in Range(t.members)}
                                |-> @[k]],
                        !.parsed_typedef_names = @ \cup {t.name},
                        !.type_defs = Put(@, t.name, t),
                        !.unions = Put(@, t.name, t),
                        !.union_names = @ \cup {t.name}]
        check == check_derived_union_is_well_formed(t, L1.virtual_type_names)
        U == UnionMembers([L |-> L1, processed_fields |-> {},
                           child_position |-> 0], t, 1)
    IN  IF check # ""
        THEN [L1 EXCEPT !.panic = check]
        ELSE IF U.L.panic # ""
        THEN U.L
        ELSE UnionCacheMembers(U.L, t, 1)

\* The TypeKind::Union branch.
ParseUnion(L, t) ==
    LET L1 == [L EXCEPT !.parsed_typedef_names = @ \cup {t.name},
                        !.type_defs = Put(@, t.name, t),
                        !.unions = Put(@, t.name, t),
                        !.union_names = @ \cup {t.name}]
        check == check_derived_union_is_well_formed(t, L1.virtual_type_names)
        U == UnionMembers([L |-> L1, processed_fields |-> {},
                           child_position |-> 0], t, 1)
    IN  IF check # ""
        THEN [L1 EXCEPT !.panic = check]
        ELSE IF U.L.panic # ""
        THEN U.L
        ELSE UnionCacheMembers(U.L, t, 1)

\* ------------------------------------------------------------------------
\* Input documents
\* ------------------------------------------------------------------------

\* The schema of test_parser_caches_all_related_typedefs_when_instantiated.
TestDoc ==
    <<Enum("AccountLabel", <<"PRIMARY", "SECONDARY">>),
      Object("Account", Entity,
             <<Field("id", Req("ID")), Field("address", Req("Address")),
               Field("label", Opt("AccountLabel"))>>),
      Object("User", Entity,
             <<Field("id", Req("ID")), Field("account", Req("Account")),
               Field("username", Req("Charfield"))>>),
      Object("Loser", Entity,
             <<Field("id", Req("ID")), Field("account", Req("Account")),
               Field("age", Req("UInt8"))>>),
      Object("Metadata", VirtualEntity, <<Field("count", Req("UInt8"))>>),
      Union("Person", <<"User", "Loser">>),
      Object("Wallet", Entity,
             <<Field("id", Req("ID")), Field("accounts", ListOf("Account"))>>),
      Object("Safe", Entity,
             <<Field("id", Req("ID")), Field("account", ListOf("Account"))>>),
      Object("Vault", Entity,
             <<Field("id", Req("ID")), Field("label", Req("Charfield")),
               Field("user", ListOf("User"))>>),
      Union("Storage", <<"Safe", "Vault">>)>>

\* The declarations the generated documents are built from.
AccountDecls ==
    {Object("Account", Entity,
            <<Field("id", Req("ID")), Field("label", Opt("AccountLabel"))>>),
     Object("Account", VirtualEntity, <<Field("id", Req("ID"))>>),
     Object("Account", NonVirtualEntity, <<Field("id", Req("ID"))>>),
     Object("Account", <<>>,
            <<Field("id", Req("ID")), Field("users", ListOf("User"))>>)}

UserDecls ==
    {Object("User", Entity,
            <<Field("id", Req("ID")), Field("account", Req("Account"))>>),
     Object("User", Entity,
            <<Field("id", Req("ID")), Field("friends", ListOf("User"))>>),
     Object("User", Entity,
            <<Field("id", Req("ID")),
              JoinField("account", Req("Account"), "label")>>),
     Object("User", Entity,
            <<Field("id", Req("ID")), JoinField("friend", Opt("User"), "username"),
              Field("username", Req("Charfield"))>>),
     Object("User", Entity,
            <<Field("id", Req("ID")), Field("owner", Req("id"))>>)}

WalletDecls ==
    {Object("Wallet", Entity,
            <<Field("id", Req("ID")), Field("accounts", ListOf("Account"))>>),
     Object("Wallet", Entity,
            <<Field("id", Req("ID")), Field("friends", Req("Charfield")),
              Field("users", ListOf("User"))>>),
     Object("Wallet", VirtualEntity,
            <<Field("id", Req("ID")), Field("accounts", ListOf("Account"))>>),
     Object("Wallet", Entity,
            <<Field("id", Req("ID")), Field("accounts", Ty("Account", 2, FALSE)),
              Field("users", ListOf("User"))>>)}

StorageDecls ==
    {Union("Storage", <<"User", "Wallet">>),
     Union("Storage", <<"Wallet", "User">>),
     Union("Storage", <<"Account", "User">>),
     Union("Storage", <<"Wallet", "AccountLabel">>)}

EnumDecls ==
    {Enum("AccountLabel", <<"PRIMARY", "SECONDARY">>),
     Enum("id", <<"PRIMARY">>)}

OtherDecls ==
    {TypeDef("Interface", "Node", <<>>, <<Field("id", Req("ID"))>>, <<>>, <<>>),
     TypeDef("InputObject", "Filter", <<>>, <<Field("id", Req("ID"))>>, <<>>, <<>>),
     TypeDef("Scalar", "Custom", <<>>, <<>>, <<>>, <<>>),
     OtherDef("Schema", "schema"),
     OtherDef("Directive", "entity")}

Pool ==
    AccountDecls \cup UserDecls \cup WalletDecls \cup StorageDecls
        \cup EnumDecls \cup OtherDecls

\* The documents of exactly n declarations from Pool with pairwise distinct
\* names.
DocsOfLen(n) ==
    {d \in [1..n -> Pool] :
        \A i, j \in 1..n : i < j => d[i].name # d[j].name}

Documents == UNION {DocsOfLen(n) : n \in 0..MaxDefs} \cup {TestDoc}

\* The values of the `schema` argument of ParsedGraphQLSchema::new.
\* Schemas are built by GraphQLSchema::new; those of the documents of one
\* declaration also by the From conversion.
SchemaArguments ==
    {None} \cup {Some(GraphQLSchema_new(Text(TRUE, d))) : d \in Documents}
           \cup {Some(GraphQLSchema_new(Text(FALSE, <<>>)))}
           \cup {Some(GraphQLSchema_from(Text(TRUE, d))) : d \in DocsOfLen(1)}
           \cup {Some(GraphQLSchema_from(Text(FALSE, <<>>)))}

\* ------------------------------------------------------------------------
\* ParsedGraphQLSchema::new as a state machine
\* ------------------------------------------------------------------------

VARIABLES
    schema,                 \* the argument `schema: Option<&GraphQLSchema>`
    pc,                     \* "start", "loop", "done"
    next_def,               \* position of `def` in ast.definitions (one-based)
    result,                 \* what the call has returned, if it has
    ast,
    type_names,
    scalar_names,
    object_field_mappings,
    parsed_typedef_names,
    enum_names,
    union_names,
    virtual_type_names,
    field_type_mappings,
    objects,
    field_defs,
    field_type_optionality,
    foreign_key_mappings,
    type_defs,
    list_field_types,
    list_type_defs,
    unions,
    join_table_meta,
    object_ordered_fields

\* A call of join_table_name followed by join_table_typedefs_name (NameSpec).
VARIABLES
    names,                  \* the arguments (a, b) of join_table_name
    joined_name,            \* the join-table name returned, if any
    typedefs                \* what join_table_typedefs_name returned, if any

lib_call == <<names, joined_name, typedefs>>

locals ==
    <<ast, type_names, scalar_names, object_field_mappings,
      parsed_typedef_names, enum_names, union_names, virtual_type_names,
      field_type_mappings, objects, field_defs, field_type_optionality,
      foreign_key_mappings, type_defs, list_field_types, list_type_defs,
      unions, join_table_meta, object_ordered_fields>>

vars == <<schema, pc, next_def, result, locals, lib_call>>

\* The locals as one record, the form the branch operators work on.
Locals ==
    [panic |-> "", field_mapping |-> EmptyMap,
     ast |-> ast, type_names |-> type_names, scalar_names |-> scalar_names,
     object_field_mappings |-> object_field_mappings,
     parsed_typedef_names |-> parsed_typedef_names,
     enum_names |-> enum_names, union_names |-> union_names,
     virtual_type_names |-> virtual_type_names,
     field_type_mappings |-> field_type_mappings, objects |-> objects,
     field_defs |-> field_defs,
     field_type_optionality |-> field_type_optionality,
     foreign_key_mappings |-> foreign_key_mappings, type_defs |-> type_defs,
     list_field_types |-> list_field_types, list_type_defs |-> list_type_defs,
     unions |-> unions, join_table_meta |-> join_table_meta,
     object_ordered_fields |-> object_ordered_fields]

Store(L) ==
    /\ ast' = L.ast
    /\ type_names' = L.type_names
    /\ scalar_names' = L.scalar_names
    /\ object_field_mappings' = L.object_field_mappings
    /\ parsed_typedef_names' = L.parsed_typedef_names
    /\ enum_names' = L.enum_names
    /\ union_names' = L.union_names
    /\ virtual_type_names' = L.virtual_type_names
    /\ field_type_mappings' = L.field_type_mappings
    /\ objects' = L.objects
    /\ field_defs' = L.field_defs
    /\ field_type_optionality' = L.field_type_optionality
    /\ foreign_key_mappings' = L.foreign_key_mappings
    /\ type_defs' = L.type_defs
    /\ list_field_types' = L.list_field_types
    /\ list_type_defs' = L.list_type_defs
    /\ unions' = L.unions
    /\ join_table_meta' = L.join_table_meta
    /\ object_ordered_fields' = L.object_ordered_fields

Pending == [kind |-> "Pending", error |-> "", model |-> None]

Err(error) == [kind |-> "Err", error |-> error, model |-> None]

Panic(message) == [kind |-> "Panic", error |-> message, model |-> None]

Ok(model) == [kind |-> "Ok", error |-> "", model |-> Some(model)]

Init ==
    /\ schema \in SchemaArguments
    /\ pc = "start"
    /\ next_def = 0
    /\ result = Pending
    /\ ast = BaseAst
    /\ type_names = build_schema_types_set(BaseAst)
    /\ scalar_names = build_schema_types_set(BaseAst)
    /\ object_field_mappings = EmptyMap
    /\ parsed_typedef_names = {}
    /\ enum_names = {}
    /\ union_names = {}
    /\ virtual_type_names = {}
    /\ field_type_mappings = EmptyMap
    /\ objects = EmptyMap
    /\ field_defs = EmptyMap
    /\ field_type_optionality = EmptyMap
    /\ foreign_key_mappings = EmptyMap
    /\ type_defs = EmptyMap
    /\ list_field_types = {}
    /\ list_type_defs = EmptyMap
    /\ unions = EmptyMap
    /\ join_table_meta = EmptyMap
    /\ object_ordered_fields = EmptyMap
    /\ names = <<>>
    /\ joined_name = None
    /\ typedefs = None

\* The definition the loop is at.
def == ast[next_def]

InLoop == pc = "loop" /\ next_def \in 1..Len(ast)

Continue(L) ==
    /\ Store(L)
    /\ next_def' = next_def + 1
    /\ UNCHANGED <<schema, pc, result, lib_call>>

Return(r) ==
    /\ pc' = "done"
    /\ result' = r
    /\ UNCHANGED <<schema, next_def, locals, lib_call>>

\* Variant: a failed `expect` is swallowed and the loop goes on.
ContinueOrAbort_Swallow(L) == Continue([L EXCEPT !.panic = ""])

\* A branch that either went through, or was aborted by a failed `expect`.
ContinueOrAbort(L) ==
    IF L.panic # "" THEN Return(Panic(L.panic)) ELSE Continue(L)

\* `schema` is None: the analysis pass is skipped.
NoSchema ==
    /\ pc = "start"
    /\ schema = None
    /\ pc' = "loop"
    /\ next_def' = Len(ast) + 1
    /\ UNCHANGED <<schema, result, locals, lib_call>>

\* parse_schema(schema.schema()) fails.
ParseError ==
    /\ pc = "start"
    /\ schema # None
    /\ ~schema[1].schema.parses
    /\ Return(Err("ParseError"))

\* parse_schema(schema.schema()) succeeds; the type names are pre-scanned.
ParseSchema ==
    /\ pc = "start"
    /\ schema # None
    /\ schema[1].schema.parses
    /\ pc' = "loop"
    /\ next_def' = 1
    /\ Store([Locals EXCEPT
                 !.ast = schema[1].schema.defs,
                 !.type_names = @ \cup build_schema_types_set(schema[1].schema.defs)])
    /\ UNCHANGED <<schema, result, lib_call>>

\* A definition that is not TypeSystemDefinition::Type: nothing happens.
OtherDefinition ==
    /\ InLoop
    /\ def.def # "Type"
    /\ Continue(Locals)

\* Variant: the `entity` filter is missing.
NonEntityObject_Parsed ==
    /\ InLoop
    /\ def.def = "Type" /\ def.kind = "Object"
    /\ ~is_entity(def)
    /\ ContinueOrAbort(ParseObject(Locals, def))

\* An Object without the `entity` directive: `continue`.
NonEntityObject ==
    /\ InLoop
    /\ def.def = "Type" /\ def.kind = "Object"
    /\ ~is_entity(def)
    /\ Continue(Locals)

EntityObject ==
    /\ InLoop
    /\ def.def = "Type" /\ def.kind = "Object"
    /\ is_entity(def)
    /\ ContinueOrAbort(ParseObject(Locals, def))

EnumDefinition ==
    /\ InLoop
    /\ def.def = "Type" /\ def.kind = "Enum"
    /\ Continue(ParseEnum(Locals, def))

UnionDefinition ==
    /\ InLoop
    /\ def.def = "Type" /\ def.kind = "Union"
    /\ ContinueOrAbort(ParseUnion(Locals, def))

\* Variant: the catch-all arm ignores the definition.
UnsupportedDefinition_Skipped ==
    /\ InLoop
    /\ def.def = "Type" /\ def.kind \notin {"Object", "Enum", "Union"}
    /\ Continue(Locals)

\* The catch-all arm of the match on the kind.
UnsupportedDefinition ==
    /\ InLoop
    /\ def.def = "Type" /\ def.kind \notin {"Object", "Enum", "Union"}
    /\ Return(Err("UnsupportedTypeKind"))

\* The fold over the non-enum type definitions.  The names of a document of
\* this model have pairwise distinct lowercase forms, so the result does not
\* depend on the iteration order of the map.
typedef_names_to_types(tds) ==
    LET keys == {k \in DOMAIN tds : tds[k].kind # "Enum"}
    IN  [l \in {to_lowercase(k) : k \in keys} |->
            CHOOSE k \in keys : to_lowercase(k) = l]

\* The value built by `Ok(Self { .. })`.
Self ==
    [type_names |-> type_names, union_names |-> union_names,
     objects |-> objects, field_defs |-> field_defs,
     foreign_key_mappings |-> foreign_key_mappings,
     object_field_mappings |-> object_field_mappings,
     enum_names |-> enum_names, virtual_type_names |-> virtual_type_names,
     parsed_typedef_names |-> parsed_typedef_names,
     field_type_mappings |-> field_type_mappings,
     scalar_names |-> scalar_names,
     field_type_optionality |-> field_type_optionality,
     schema |-> schema[1], ast |-> ast, type_defs |-> type_defs,
     list_field_types |-> list_field_types, list_type_defs |-> list_type_defs,
     unions |-> unions, join_table_meta |-> join_table_meta,
     typedef_names_to_types |-> typedef_names_to_types(type_defs),
     object_ordered_fields |-> object_ordered_fields]

\* Variant: an absent schema is stored as it is instead of being unwrapped.
Finish_NoUnwrap ==
    /\ pc = "loop"
    /\ next_def > Len(ast)
    /\ IF schema = None
       THEN Return(Ok([Locals EXCEPT !.panic = ""]))
       ELSE Return(Ok(Self))

\* After the loop: `schema.cloned().unwrap()` aborts on None, otherwise the
\* model is returned.
Finish ==
    /\ pc = "loop"
    /\ next_def > Len(ast)
    /\ IF schema = None
       THEN Return(Panic("called Option::unwrap on a None value"))
       ELSE Return(Ok(Self))

Next ==
    \/ NoSchema
    \/ ParseError
    \/ ParseSchema
    \/ OtherDefinition
    \/ NonEntityObject
    \/ EntityObject
    \/ EnumDefinition
    \/ UnionDefinition
    \/ UnsupportedDefinition
    \/ Finish

Spec == Init /\ [][Next]_vars

\* ------------------------------------------------------------------------
\* join_table_name and join_table_typedefs_name as a state machine
\* ------------------------------------------------------------------------

Characters == {"a", "s", "_"}

\* The names of at most MaxNameLen characters.
Names == UNION {[1..n -> Characters] : n \in 0..MaxNameLen}

\* No constructor call is under way.
ParserIdle ==
    /\ schema = None
    /\ pc = "start"
    /\ next_def = 0
    /\ result = Pending
    /\ ast = <<>>
    /\ type_names = {}
    /\ scalar_names = {}
    /\ object_field_mappings = EmptyMap
    /\ parsed_typedef_names = {}
    /\ enum_names = {}
    /\ union_names = {}
    /\ virtual_type_names = {}
    /\ field_type_mappings = EmptyMap
    /\ objects = EmptyMap
    /\ field_defs = EmptyMap
    /\ field_type_optionality = EmptyMap
    /\ foreign_key_mappings = EmptyMap
    /\ type_defs = EmptyMap
    /\ list_field_types = {}
    /\ list_type_defs = EmptyMap
    /\ unions = EmptyMap
    /\ join_table_meta = EmptyMap
    /\ object_ordered_fields = EmptyMap

NameInit ==
    /\ ParserIdle
    /\ names \in Names \X Names
    /\ joined_name = None
    /\ typedefs = None

JoinTableName ==
    /\ joined_name = None
    /\ joined_name' = Some(join_table_name_chars(names[1], names[2]))
    /\ UNCHANGED <<schema, pc, next_def, result, locals, names, typedefs>>

JoinTableTypedefsName ==
    /\ joined_name # None
    /\ typedefs = None
    /\ typedefs' = Some(join_table_typedefs_name(joined_name[1]))
    /\ UNCHANGED <<schema, pc, next_def, result, locals, names, joined_name>>

NameNext == JoinTableName \/ JoinTableTypedefsName

NameSpec == NameInit /\ [][NameNext]_vars

\* ------------------------------------------------------------------------
\* Queries on the finished model
\* ------------------------------------------------------------------------

is_enum_typedef(self, name) == name \in self.enum_names

is_virtual_typedef(self, name) ==
    name \in self.virtual_type_names /\ ~is_enum_typedef(self, name)

\* Variant: the virtual set is not consulted.
is_possible_foreign_key_NoVirtual(self, name) ==
    /\ name \in self.parsed_typedef_names
    /\ name \notin self.scalar_names
    /\ ~is_enum_typedef(self, name)

is_possible_foreign_key(self, name) ==
    /\ name \in self.parsed_typedef_names
    /\ name \notin self.scalar_names
    /\ ~is_enum_typedef(self, name)
    /\ ~is_virtual_typedef(self, name)

has_type(self, name) == name \in self.type_names

\* ------------------------------------------------------------------------
\* Vocabulary of the properties
\* ------------------------------------------------------------------------

\* The definitions of the document handed to the constructor.
Document ==
    IF schema = None \/ ~schema[1].schema.parses
    THEN <<>>
    ELSE schema[1].schema.defs

Positions == 1..Len(Document)

Done == pc = "done"

Finished == result.kind = "Ok"

\* The model returned to the caller (when Finished).
M == result.model[1]

IsObjectAt(n) == Document[n].def = "Type" /\ Document[n].kind = "Object"

IsEntityAt(n) == IsObjectAt(n) /\ is_entity(Document[n])

IsUnionAt(n) == Document[n].def = "Type" /\ Document[n].kind = "Union"

FieldIndices(n) == 1..Len(Document[n].fields)

HasJoinDirective(f) == JoinDirectives(f) # <<>>

\* The column a foreign-key field refers to.
ReferencedColumn(f) ==
    IF HasJoinDirective(f)
    THEN LET d == Head(JoinDirectives(f)) IN d.arguments[Len(d.arguments)][2]
    ELSE IdCol

\* U is the name of an entity Object declared before position n (or at n when
\* self is allowed), is not flagged virtual and is not a base scalar.
ResolvableAt(U, n, self_allowed) ==
    /\ \E k \in Positions :
          /\ IsEntityAt(k)
          /\ Document[k].name = U
          /\ k < n \/ (self_allowed /\ k = n)
    /\ U \notin M.virtual_type_names
    /\ U \notin M.scalar_names

\* T is named as a member by some union of the document.
IsUnionMember(T) ==
    \E n \in Positions : IsUnionAt(n) /\ T \in Range(Document[n].members)

EntriesUnder(key) ==
    IF key \in DOMAIN M.join_table_meta THEN M.join_table_meta[key] ELSE <<>>

\* The entries under `key` that carry position i.
EntriesAt(key, i) ==
    {k \in 1..Len(EntriesUnder(key)) :
        EntriesUnder(key)[k].parent.child_position = Some(i)}

\* The join-table entry (parent typedef, parent column) -> (child typedef,
\* child column) with the position of the list field.
JoinEntry(parent_typedef, parent_column, child_typedef, child_column, position) ==
    [parent |-> [relation_type |-> "Parent", typedef_name |-> parent_typedef,
                 column_name |-> parent_column, child_position |-> position],
     child  |-> [relation_type |-> "Child", typedef_name |-> child_typedef,
                 column_name |-> child_column, child_position |-> <<>>]]

\* ------------------------------------------------------------------------
\* C1
\* ------------------------------------------------------------------------

TestSchema == Some(GraphQLSchema_new(Text(TRUE, TestDoc)))

\* C1: constructing the model from the schema of the parser test returns Ok;
\* join_table_meta has exactly the keys "Wallet" and "Storage"; the first
\* entry of Wallet is (wallet, id) -> (account, id) at position 1; Storage has
\* exactly the entries (storage, id) -> (account, id) at position 1 and
\* (storage, id) -> (user, id) at position 3, in this order; "Safe" and
\* "Vault" are no keys.
C1_TestSchemaJoinTables ==
    (schema = TestSchema /\ Done) =>
        /\ Finished
        /\ DOMAIN M.join_table_meta = {"Wallet", "Storage"}
        /\ M.join_table_meta["Wallet"][1] =
               JoinEntry("wallet", "id", "account", "id", Some(1))
        /\ M.join_table_meta["Storage"] =
               <<JoinEntry("storage", "id", "account", "id", Some(1)),
                 JoinEntry("storage", "id", "user", "id", Some(3))>>
        /\ "Safe" \notin DOMAIN M.join_table_meta
        /\ "Vault" \notin DOMAIN M.join_table_meta

C1_Witness == schema = TestSchema /\ Finished

\* ------------------------------------------------------------------------
\* C2
\* ------------------------------------------------------------------------

\* The entry the object path derives for field i (one-based) of the entity
\* at position n.
ObjectEntry(n, i) ==
    JoinEntry(to_lowercase(Document[n].name), "id",
                      to_lowercase(field_type_name(Document[n].fields[i])), "id",
                      Some(i - 1))

\* Under the declared name of the entity at n there is exactly one entry for
\* its field i, and it is ObjectEntry(n, i).
HasObjectEntry(n, i) ==
    /\ Cardinality(EntriesAt(Document[n].name, i - 1)) = 1
    /\ \A k \in EntriesAt(Document[n].name, i - 1) :
          EntriesUnder(Document[n].name)[k] = ObjectEntry(n, i)

\* Field i of the entity at n is list-typed, has no join directive, and its
\* element type is an entity Object of the document.
IsPlainListReference(n, i) ==
    LET f == Document[n].fields[i]
    IN  /\ is_list_type(f)
        /\ ~HasJoinDirective(f)
        /\ \E k \in Positions : IsEntityAt(k) /\ Document[k].name = field_type_name(f)

\* C2 as claimed: on success, every list-typed field (no join directive) of an
\* entity Object T whose element type is an entity Object U has exactly one
\* entry under the key T, wherever T and U are declared.
C2_Original ==
    Finished =>
        \A n \in Positions : IsEntityAt(n) =>
            \A i \in FieldIndices(n) :
                IsPlainListReference(n, i) => HasObjectEntry(n, i)

\* C2 amended: on success (type declarations of pairwise distinct names), for
\* every entity Object T that is no member of a union, every list-typed field f of T (no join directive) whose element
\* type U is an entity Object declared before T (or T itself) that is neither
\* virtual nor named like a base scalar has exactly one entry under the key T
\* (the declared name): (lowercase(T), "id") -> (lowercase(U), "id") at
\* position = zero-based index of f.
C2_ObjectJoinEntry ==
    Finished =>
        \A n \in Positions : (IsEntityAt(n) /\ ~IsUnionMember(Document[n].name)) =>
            \A i \in FieldIndices(n) :
                (/\ IsPlainListReference(n, i)
                 /\ ResolvableAt(field_type_name(Document[n].fields[i]), n, TRUE))
                    => HasObjectEntry(n, i)

C2_Witness ==
    /\ Finished
    /\ \E n \in Positions :
          /\ IsEntityAt(n)
          /\ ~IsUnionMember(Document[n].name)
          /\ \E i \in FieldIndices(n) :
                /\ i > 1
                /\ IsPlainListReference(n, i)
                /\ ResolvableAt(field_type_name(Document[n].fields[i]), n, FALSE)
                /\ HasObjectEntry(n, i)

\* ------------------------------------------------------------------------
\* C3
\* ------------------------------------------------------------------------

RECURSIVE Flatten(_)
Flatten(seqs) == IF seqs = <<>> THEN <<>> ELSE Head(seqs) \o Flatten(Tail(seqs))

\* The declaration of the entity Object named B.
DeclOf(B) ==
    Document[CHOOSE k \in Positions : IsEntityAt(k) /\ Document[k].name = B]

\* The fields of the members of the union at n, in member order, each paired
\* with the name of its member.
MemberFields(n) ==
    Flatten([m \in 1..Len(Document[n].members) |->
                [k \in 1..Len(DeclOf(Document[n].members[m]).fields) |->
                    [field |-> DeclOf(Document[n].members[m]).fields[k],
                     member |-> Document[n].members[m]]]])

\* Entry k of fs is the first one with its field name.
IsFirstOccurrence(fs, k) ==
    \A j \in 1..(k - 1) : fs[j].field.name # fs[k].field.name

\* The first entry of fs with the field name of entry k.
FirstOccurrence(fs, k) ==
    CHOOSE j \in 1..k : fs[j].field.name = fs[k].field.name /\ IsFirstOccurrence(fs, j)

\* Zero-based index of entry k among the first occurrences.
MergedIndex(fs, k) == Cardinality({j \in 1..(k - 1) : IsFirstOccurrence(fs, j)})

\* Under the key of the union at n there is an entry for the relationship of
\* entry k of its member fields: it sits at the place of that field name in
\* the merged view and leads to the field's element type and column.
HasUnionEntry(n, k) ==
    LET fs == MemberFields(n)
        f == fs[k].field
    IN  \E e \in Range(EntriesUnder(Document[n].name)) :
            e = JoinEntry(to_lowercase(Document[n].name), "id",
                                  to_lowercase(field_type_name(f)),
                                  ReferencedColumn(f),
                                  Some(MergedIndex(fs, FirstOccurrence(fs, k))))

\* C3 as claimed: on success, for every union S and every member B of S with
\* a list-typed foreign-key field f, there is an entry for that relationship
\* under S and B is no key of join_table_meta, whatever the other members
\* declare.
C3_Original ==
    Finished =>
        \A n \in Positions : IsUnionAt(n) =>
            \A k \in 1..Len(MemberFields(n)) :
                (/\ is_list_type(MemberFields(n)[k].field)
                 /\ is_possible_foreign_key(
                        M, field_type_name(MemberFields(n)[k].field)))
                    => /\ HasUnionEntry(n, k)
                       /\ MemberFields(n)[k].member \notin DOMAIN M.join_table_meta

\* C3 amended: on success (type declarations of pairwise distinct names), for
\* every union S and every member B of S with a list-typed field f whose element type is a non-virtual entity Object
\* declared before S, and whose name is not declared by an earlier member of
\* S: there is an entry for that relationship under S; and no member of S
\* that has a list-typed field is a key of join_table_meta.
C3_UnionSupersedesMembers ==
    Finished =>
        \A n \in Positions : IsUnionAt(n) =>
            \A k \in 1..Len(MemberFields(n)) :
                is_list_type(MemberFields(n)[k].field) =>
                    /\ MemberFields(n)[k].member \notin DOMAIN M.join_table_meta
                    /\ (/\ IsFirstOccurrence(MemberFields(n), k)
                        /\ ResolvableAt(field_type_name(MemberFields(n)[k].field),
                                        n, FALSE))
                           => HasUnionEntry(n, k)

\* A union whose second member brings the list-typed foreign key.
C3_Witness ==
    /\ Finished
    /\ \E n \in Positions :
          /\ IsUnionAt(n)
          /\ \E k \in 1..Len(MemberFields(n)) :
                /\ is_list_type(MemberFields(n)[k].field)
                /\ MemberFields(n)[k].member = Document[n].members[2]
                /\ Document[n].members[1] # Document[n].members[2]
                /\ IsFirstOccurrence(MemberFields(n), k)
                /\ ResolvableAt(field_type_name(MemberFields(n)[k].field), n, FALSE)
                /\ HasUnionEntry(n, k)
                /\ MemberFields(n)[k].member \notin DOMAIN M.join_table_meta

\* ------------------------------------------------------------------------
\* C4
\* ------------------------------------------------------------------------

\* C4: on a finished model is_possible_foreign_key is false for every base
\* scalar name, every enum name and every name of the virtual set, and true
\* for every entity Object name that is none of these.
C4_PossibleForeignKey ==
    Finished =>
        /\ \A name \in M.scalar_names \cup M.enum_names \cup M.virtual_type_names :
              ~is_possible_foreign_key(M, name)
        /\ \A n \in Positions :
              (/\ IsEntityAt(n)
               /\ Document[n].name \notin
                      M.scalar_names \cup M.enum_names \cup M.virtual_type_names)
                  => is_possible_foreign_key(M, Document[n].name)

\* A finished model with an enum, a virtual entity and a plain entity.
C4_Witness ==
    /\ Finished
    /\ M.enum_names # {}
    /\ \E n \in Positions :
          /\ IsEntityAt(n)
          /\ Document[n].name \in M.virtual_type_names
          /\ ~is_possible_foreign_key(M, Document[n].name)
    /\ \E n \in Positions :
          /\ IsEntityAt(n)
          /\ Document[n].name \notin M.virtual_type_names
          /\ is_possible_foreign_key(M, Document[n].name)

\* ------------------------------------------------------------------------
\* C5
\* ------------------------------------------------------------------------

\* The names of the declared types: the base scalars and the type
\* definitions of the document.
DeclaredTypeNames ==
    build_schema_types_set(BaseAst) \cup build_schema_types_set(Document)

\* C5: a name that is not the name of a declared type is no possible foreign
\* key, neither for is_possible_foreign_key on the finished model nor for the
\* gate applied while the fields are processed (no field of such a type is
\* recorded in foreign_key_mappings).
C5_OnlyDeclaredTypes ==
    Finished =>
        /\ \A name \in M.parsed_typedef_names \ DeclaredTypeNames :
              ~is_possible_foreign_key(M, name)
        /\ \A n \in Positions : IsEntityAt(n) =>
              \A i \in FieldIndices(n) :
                  field_type_name(Document[n].fields[i]) \notin DeclaredTypeNames
                      => \/ to_lowercase(Document[n].name)
                                \notin DOMAIN M.foreign_key_mappings
                         \/ Document[n].fields[i].name \notin
                                DOMAIN M.foreign_key_mappings[
                                           to_lowercase(Document[n].name)]

\* ------------------------------------------------------------------------
\* C6
\* ------------------------------------------------------------------------

UnsupportedAt(n) ==
    Document[n].def = "Type" /\ Document[n].kind \notin {"Object", "Enum", "Union"}

NotATypeAt(n) == Document[n].def # "Type"

\* Every member of the union at n is an entity Object declared before n.
MembersRegisteredAt(n) ==
    \A m \in Range(Document[n].members) :
        \E k \in 1..(n - 1) : IsEntityAt(k) /\ Document[k].name = m

\* Every join directive that was followed names an indexed column.
JoinColumnsIndexed ==
    \A n \in Positions : IsEntityAt(n) =>
        \A i \in FieldIndices(n) :
            LET f == Document[n].fields[i]
                table == to_lowercase(Document[n].name)
            IN  (/\ HasJoinDirective(f)
                 /\ table \in DOMAIN M.foreign_key_mappings
                 /\ f.name \in DOMAIN M.foreign_key_mappings[table])
                    => field_id(field_type_name(f), ReferencedColumn(f))
                           \in DOMAIN M.field_type_mappings

\* C6: construction is atomic.  A model reaches the caller only with the Ok
\* result, after every definition of the document went through the loop, and
\* it is the complete set of indices; an Err or an abort carries no model;
\* and Ok is never the result for a missing schema, a text that does not
\* parse, a document with an unsupported kind of type, a union with an
\* unregistered member or an unresolved join column.
C6_AtomicConstruction ==
    /\ Done <=> result.kind \in {"Ok", "Err", "Panic"}
    /\ result.kind \in {"Err", "Panic"} => result.model = None
    /\ result.model # None =>
          /\ result.kind = "Ok"
          /\ schema # None
          /\ schema[1].schema.parses
          /\ ast = Document
          /\ next_def = Len(Document) + 1
          /\ M = Self
          /\ \A n \in Positions : ~UnsupportedAt(n)
          /\ \A n \in Positions : IsUnionAt(n) => MembersRegisteredAt(n)
          /\ JoinColumnsIndexed

\* A failure that is raised after earlier declarations were indexed.
C6_Witness ==
    /\ Done
    /\ result.kind = "Panic"
    /\ result.model = None
    /\ next_def > 1
    /\ DOMAIN objects # {}

\* ------------------------------------------------------------------------
\* C7
\* ------------------------------------------------------------------------

FirstUnsupported == CHOOSE n \in Positions :
    UnsupportedAt(n) /\ \A k \in 1..(n - 1) : ~UnsupportedAt(k)

\* C7 as claimed: a document with a declaration of an unsupported kind
\* (another kind of type, or a schema or directive definition) at any position
\* is rejected with UnsupportedTypeKind instead of the declaration being
\* ignored (stated for the runs that no failed `expect` aborts).
C7_Original ==
    (/\ Done
     /\ result.kind # "Panic"
     /\ \E n \in Positions : UnsupportedAt(n) \/ NotATypeAt(n))
        => result = Err("UnsupportedTypeKind")

\* C7 amended: a document with a type declaration of a kind other than
\* object, enum and union never yields a model: construction fails with
\* UnsupportedTypeKind when the loop reaches the first such declaration,
\* unless an earlier declaration has aborted it.  Schema and directive
\* definitions are skipped: construction never fails at one of them.
C7_UnsupportedTypeKind ==
    /\ (Done /\ \E n \in Positions : UnsupportedAt(n)) =>
          \/ result = Err("UnsupportedTypeKind") /\ next_def = FirstUnsupported
          \/ result.kind = "Panic" /\ next_def < FirstUnsupported
    /\ (Done /\ ~Finished /\ next_def \in Positions) => ~NotATypeAt(next_def)

\* An unsupported kind of type that is reached after a skipped schema or
\* directive definition.
C7_Witness ==
    /\ Done
    /\ result = Err("UnsupportedTypeKind")
    /\ next_def \in Positions
    /\ UnsupportedAt(next_def)
    /\ \E k \in 1..(next_def - 1) : NotATypeAt(k)

\* ------------------------------------------------------------------------
\* C8
\* ------------------------------------------------------------------------

\* Some members of the union at n are in the virtual set and some are not.
MembersDisagreeAt(n) ==
    \E a, b \in Range(Document[n].members) :
        a \in virtual_type_names /\ b \notin virtual_type_names

\* C8: when construction stops at a union that names a member which is not a
\* registered entity Object (the members agreeing on virtual status, so that
\* the member lookup is reached), the result is Err(UnionMemberNotFound).
C8_UnionMemberNotFound ==
    (/\ Done
     /\ ~Finished
     /\ next_def \in Positions
     /\ IsUnionAt(next_def)
     /\ ~MembersDisagreeAt(next_def)
     /\ \E m \in Range(Document[next_def].members) : m \notin DOMAIN objects)
        => result = Err("UnionMemberNotFound")

\* ------------------------------------------------------------------------
\* C9
\* ------------------------------------------------------------------------

\* C9: when construction stops at a union whose members disagree on virtual
\* status, the result is Err(InconsistentVirtualUnion).
C9_InconsistentVirtualUnion ==
    (/\ Done
     /\ next_def \in Positions
     /\ IsUnionAt(next_def)
     /\ MembersDisagreeAt(next_def))
        => result = Err("InconsistentVirtualUnion")

\* ------------------------------------------------------------------------
\* C10
\* ------------------------------------------------------------------------

\* Some field of some entity of the document is named name.
IsEntityFieldName(name) ==
    \E n \in Positions :
        IsEntityAt(n) /\ \E i \in FieldIndices(n) : Document[n].fields[i].name = name

\* The Object at n has left no trace in the indices that are keyed by type
\* name or by field id.
AbsentFromIndices(n) ==
    LET name == Document[n].name
    IN  /\ name \notin DOMAIN M.objects
        /\ name \notin DOMAIN M.type_defs
        /\ name \notin DOMAIN M.object_field_mappings
        /\ name \notin DOMAIN M.object_ordered_fields
        /\ name \notin DOMAIN M.list_type_defs
        /\ name \notin DOMAIN M.join_table_meta
        /\ to_lowercase(name) \notin DOMAIN M.foreign_key_mappings
        /\ to_lowercase(name) \notin DOMAIN M.typedef_names_to_types
        /\ \A i \in FieldIndices(n) :
              LET fid == field_id(name, Document[n].fields[i].name)
              IN  /\ fid \notin DOMAIN M.field_defs
                  /\ fid \notin DOMAIN M.field_type_mappings
                  /\ fid \notin DOMAIN M.field_type_optionality

\* C10 as claimed: an Object without the entity directive is in none of the
\* indices of the finished model, has_type included.
C10_Original ==
    Finished =>
        \A n \in Positions : (IsObjectAt(n) /\ ~IsEntityAt(n)) =>
            /\ ~has_type(M, Document[n].name)
            /\ Document[n].name \notin M.parsed_typedef_names
            /\ AbsentFromIndices(n)

\* C10 amended: an Object without the entity directive (whose name no other
\* declaration bears) is known to the finished model by name only: has_type(name) is true (the pre-scan collects
\* every declared type name), but the name is not in objects, type_defs,
\* object_field_mappings, object_ordered_fields, list_type_defs or
\* join_table_meta, it is in the parsed names only if a field of an entity
\* bears it, and none of its fields is in field_defs, field_type_mappings,
\* field_type_optionality or foreign_key_mappings.
C10_NonEntityObjectSkipped ==
    Finished =>
        \A n \in Positions : (IsObjectAt(n) /\ ~IsEntityAt(n)) =>
            /\ has_type(M, Document[n].name)
            /\ Document[n].name \in M.parsed_typedef_names
                   => IsEntityFieldName(Document[n].name)
            /\ AbsentFromIndices(n)

\* A finished model of a document in which an Object without the entity
\* directive, carrying a list field, follows an entity.
C10_Witness ==
    /\ Finished
    /\ \E n \in Positions :
          /\ IsObjectAt(n) /\ ~IsEntityAt(n)
          /\ \E i \in FieldIndices(n) : is_list_type(Document[n].fields[i])
          /\ \E k \in 1..(n - 1) : IsEntityAt(k)
          /\ has_type(M, Document[n].name)
          /\ AbsentFromIndices(n)

\* ------------------------------------------------------------------------
\* C11
\* ------------------------------------------------------------------------

\* The lowercase names of the enums and of the Objects flagged virtual.
EnumOrVirtualTables ==
    {to_lowercase(n) : n \in M.enum_names \cup M.virtual_type_names}

\* C11: in every finished model no enum and no virtual type is a side of a
\* join table: no key of join_table_meta, no parent typedef and no child
\* typedef of an entry is the name of an enum or of an Object flagged virtual.
C11_NoEnumOrVirtualSide ==
    Finished =>
        \A key \in DOMAIN M.join_table_meta :
            /\ to_lowercase(key) \notin EnumOrVirtualTables
            /\ \A k \in 1..Len(M.join_table_meta[key]) :
                  /\ M.join_table_meta[key][k].parent.typedef_name
                        \notin EnumOrVirtualTables
                  /\ M.join_table_meta[key][k].child.typedef_name
                        \notin EnumOrVirtualTables

\* ------------------------------------------------------------------------
\* C12
\* ------------------------------------------------------------------------

\* The names registered as parsed when field i (one-based) of the entity at
\* position n is processed: the entities up to n, the unions before n, and
\* the names of the fields processed so far.
RegisteredAt(n, i) ==
    {Document[k].name : k \in {p \in 1..n : IsEntityAt(p)}}
        \cup {Document[k].name : k \in {p \in 1..(n - 1) : IsUnionAt(p)}}
        \cup UNION {{Document[k].fields[j].name : j \in FieldIndices(k)} :
                       k \in {p \in 1..(n - 1) : IsEntityAt(p)}}
        \cup {Document[n].fields[j].name : j \in 1..(i - 1)}

\* The enums declared before position n.
EnumsBefore(n) ==
    {Document[k].name :
        k \in {p \in 1..(n - 1) :
                  Document[p].def = "Type" /\ Document[p].kind = "Enum"}}

\* The Objects flagged virtual when a field of the entity at position n is
\* processed.
VirtualAt(n) ==
    {Document[k].name :
        k \in {p \in 1..n : /\ IsEntityAt(p)
                            /\ has_virtual_argument(Document[p])
                            /\ Document[p].fields # <<>>}}

\* Field i of the entity at position n names, when it is processed, an
\* already registered non-scalar, non-enum, non-virtual type.
GateAtMoment(n, i) ==
    LET U == field_type_name(Document[n].fields[i])
    IN  /\ U \in RegisteredAt(n, i)
        /\ U \notin build_schema_types_set(BaseAst)
        /\ U \notin EnumsBefore(n)
        /\ U \notin VirtualAt(n)

HasForeignKey(T, f) ==
    /\ to_lowercase(T) \in DOMAIN M.foreign_key_mappings
    /\ f \in DOMAIN M.foreign_key_mappings[to_lowercase(T)]

JoinTableMetas ==
    UNION {Range(join_table_meta[key]) : key \in DOMAIN join_table_meta}

\* C13: join_table_name(a, b) is a followed by "s_", b and "s", so that
\* join_table_name("wallet", "account") = "wallets_accounts"; the table name
\* of every JoinTableMeta is the lowercase parent typedef, "s_", the
\* lowercase child typedef and "s".
C13_JoinTableName ==
    /\ join_table_name("wallet", "account") = "wallets_accounts"
    /\ join_table_name("", "") = "s_s"
    /\ join_table_name("a_b", "c") = "a_bs_cs"
    /\ table_name(JoinEntry("Wallet", "id", "Account", "id", Some(1)))
          = "wallets_accounts"
    /\ \A e \in JoinTableMetas :
          /\ table_name(e)
                = to_lowercase(e.parent.typedef_name) \o "s_"
                    \o to_lowercase(e.child.typedef_name) \o "s"
          /\ Len(table_name(e))
                = Len(e.parent.typedef_name) + Len(e.child.typedef_name) + 3

\* The join tables of a union and of an Object have been named.
C13_Witness ==
    /\ Finished
    /\ \E e \in JoinTableMetas : table_name(e) = "wallets_accounts"
    /\ \E e \in JoinTableMetas : table_name(e) = "storages_users"

\* ------------------------------------------------------------------------
\* C15
\* ------------------------------------------------------------------------

\* The positions at which an entity Object named U is declared.
EntityPositions(U) == {k \in Positions : IsEntityAt(k) /\ Document[k].name = U}

\* The names of the fields of the entities of the document.
EntityFieldNames ==
    UNION {{Document[k].fields[j].name : j \in FieldIndices(k)} :
              k \in {p \in Positions : IsEntityAt(p)}}

\* Under the declared name of the entity at n there is no entry for its
\* field i.
NoEntryUnderOwner(n, i) == EntriesAt(Document[n].name, i - 1) = {}

\* Under the declared name of the entity at n there is exactly one entry for
\* its field i: (lowercase(T), "id") -> (lowercase(U), referenced column).
HasReferenceEntry(n, i) ==
    LET f == Document[n].fields[i]
    IN  /\ Cardinality(EntriesAt(Document[n].name, i - 1)) = 1
        /\ \A k \in EntriesAt(Document[n].name, i - 1) :
              EntriesUnder(Document[n].name)[k]
                  = JoinEntry(to_lowercase(Document[n].name), "id",
                              to_lowercase(field_type_name(f)),
                              ReferencedColumn(f), Some(i - 1))

\* C15 as claimed: a field of entity T whose type U is an entity Object
\* declared later is absent from foreign_key_mappings and join_table_meta
\* although has_type(U) holds; with U declared before T the field is
\* recorded as a foreign key, and as a join-table entry when list-typed.
C15_Original ==
    Finished =>
        \A n \in Positions : IsEntityAt(n) =>
            \A i \in FieldIndices(n) :
                LET f == Document[n].fields[i]
                    U == field_type_name(f)
                IN  \A k \in EntityPositions(U) :
                        /\ k > n =>
                              /\ has_type(M, U)
                              /\ ~HasForeignKey(Document[n].name, f.name)
                              /\ NoEntryUnderOwner(n, i)
                        /\ k < n =>
                              /\ HasForeignKey(Document[n].name, f.name)
                              /\ is_list_type(f) => HasReferenceEntry(n, i)

\* C15: in a finished model, a field f of entity T whose type U is an entity
\* Object declared later than T (U not being the name of a field) is absent
\* from foreign_key_mappings[lowercase(T)] and has no entry under the key T,
\* although has_type(U) holds; with U declared before T, not flagged virtual
\* and not named like a base scalar, the field is recorded as a foreign key
\* to (lowercase(U), referenced column), and, when list-typed and T is not a
\* member of a union, as the entry under T at the position of f.
C15_OrderSensitiveResolution ==
    Finished =>
        \A n \in Positions : IsEntityAt(n) =>
            \A i \in FieldIndices(n) :
                LET f == Document[n].fields[i]
                    T == Document[n].name
                    U == field_type_name(f)
                IN  \A k \in EntityPositions(U) :
                        /\ (k > n /\ U \notin EntityFieldNames) =>
                              /\ has_type(M, U)
                              /\ ~HasForeignKey(T, f.name)
                              /\ NoEntryUnderOwner(n, i)
                        /\ (k < n /\ ResolvableAt(U, n, FALSE)) =>
                              /\ HasForeignKey(T, f.name)
                              /\ M.foreign_key_mappings[to_lowercase(T)][f.name]
                                    = <<to_lowercase(U), ReferencedColumn(f)>>
                              /\ (is_list_type(f) /\ ~IsUnionMember(T))
                                    => HasReferenceEntry(n, i)

\* A finished model in which one entity refers to an entity declared later
\* and another one, by a list, to an entity declared before it.
C15_Witness ==
    /\ Finished
    /\ \E n \in Positions : IsEntityAt(n) /\ \E i \in FieldIndices(n) :
          \E k \in EntityPositions(field_type_name(Document[n].fields[i])) :
              k > n
    /\ \E n \in Positions : IsEntityAt(n) /\ \E i \in FieldIndices(n) :
          /\ is_list_type(Document[n].fields[i])
          /\ ~IsUnionMember(Document[n].name)
          /\ \E k \in EntityPositions(field_type_name(Document[n].fields[i])) :
                k < n /\ ResolvableAt(Document[k].name, n, FALSE)

\* ------------------------------------------------------------------------
\* C16
\* ------------------------------------------------------------------------

\* The qualified field ids in field_type_mappings when field i (one-based)
\* of the entity at position n is processed: the fields of the entities and
\* the values of the enums before n, the member fields re-registered by the
\* unions before n, and the fields of the entity processed so far.
IndexedAt(n, i) ==
    UNION {{field_id(Document[k].name, Document[k].fields[j].name) :
               j \in FieldIndices(k)} :
              k \in {p \in 1..(n - 1) : IsEntityAt(p)}}
        \cup UNION {{field_id(Document[k].name, v) : v \in Range(Document[k].values)} :
                       k \in {p \in 1..(n - 1) :
                                 /\ Document[p].def = "Type"
                                 /\ Document[p].kind = "Enum"}}
        \cup UNION {UNION {{field_id(Document[k].name, Document[b].fields[j].name) :
                               j \in FieldIndices(b)} :
                              b \in {q \in 1..(k - 1) :
                                        /\ IsEntityAt(q)
                                        /\ Document[q].name
                                              \in Range(Document[k].members)}} :
                       k \in {p \in 1..(n - 1) : IsUnionAt(p)}}
        \cup {field_id(Document[n].name, Document[n].fields[j].name) :
                 j \in 1..(i - 1)}

\* The qualified field id a join directive of f refers to.
JoinedFieldId(f) == field_id(field_type_name(f), ReferencedColumn(f))

\* C16: construction never completes when a field of an entity carries a
\* join directive naming a column whose qualified field id is not in
\* field_type_mappings when the field is processed; target types declared
\* later and columns declared later in the same Object included.
C16_UnindexedJoinColumnFails ==
    Finished =>
        \A n \in Positions : IsEntityAt(n) =>
            \A i \in FieldIndices(n) :
                HasJoinDirective(Document[n].fields[i])
                    => JoinedFieldId(Document[n].fields[i]) \in IndexedAt(n, i)

\* ------------------------------------------------------------------------
\* C17
\* ------------------------------------------------------------------------

\* The fields of the Objects of the document.
DocumentFields ==
    UNION {Range(Document[n].fields) : n \in {p \in Positions : IsObjectAt(p)}}

\* An index whose type strings carry list and nullability decorations.
DecoratedIndex ==
    [id \in {"Account.label", "User.username", "Account.id", "User.id"} |->
        CASE id = "Account.label" -> "[AccountLabel!]!"
          [] id = "User.username" -> "[Charfield]!"
          [] id = "Account.id"    -> "ID!"
          [] id = "User.id"       -> "[[UInt8!]]"]

\* The column types of DecoratedIndex with '[', ']' and '!' removed.
UndecoratedIndex ==
    [id \in DOMAIN DecoratedIndex |->
        CASE id = "Account.label" -> "AccountLabel"
          [] id = "User.username" -> "Charfield"
          [] id = "Account.id"    -> "ID"
          [] id = "User.id"       -> "UInt8"]

ForeignKeyInfo(coltype, colname, tablename) ==
    [panic |-> "", coltype |-> coltype, colname |-> colname,
     tablename |-> tablename]

\* extract_foreign_key_info(f, index) is as C17 states, for an index whose
\* type strings become `stripped` when '[', ']' and '!' are removed.
ExtractsAsStated(f, index, stripped) ==
    /\ ~HasJoinDirective(f) =>
          extract_foreign_key_info(f, index)
              = ForeignKeyInfo("UInt8", "id", to_lowercase(f.ty.base))
    /\ (HasJoinDirective(f) /\ JoinedFieldId(f) \in DOMAIN index) =>
          extract_foreign_key_info(f, index)
              = ForeignKeyInfo(stripped[JoinedFieldId(f)], ReferencedColumn(f),
                               to_lowercase(f.ty.base))

\* C17: extract_foreign_key_info(field, index) is ("UInt8", "id",
\* lowercase(stripped type name of the field)) without a join directive,
\* whatever the index; with a join directive naming column c whose id
\* "Type.c" is in the index it is (index["Type.c"] with every '[', ']' and
\* '!' removed, c, lowercase(Type)).  Checked for every field of the
\* document against the index the constructor holds (whose type strings are
\* stripped names), against the empty index and against a decorated index.
C17_ExtractForeignKeyInfo ==
    \A f \in DocumentFields :
        /\ ExtractsAsStated(f, field_type_mappings, field_type_mappings)
        /\ ExtractsAsStated(f, EmptyMap, EmptyMap)
        /\ ExtractsAsStated(f, DecoratedIndex, UndecoratedIndex)

\* The constructor has recorded a foreign key from a join directive whose
\* column is in the index.
C17_Witness ==
    /\ Finished
    /\ \E n \in Positions : IsEntityAt(n) /\ \E i \in FieldIndices(n) :
          /\ HasJoinDirective(Document[n].fields[i])
          /\ JoinedFieldId(Document[n].fields[i]) \in DOMAIN DecoratedIndex
          /\ JoinedFieldId(Document[n].fields[i]) \in DOMAIN field_type_mappings
          /\ HasForeignKey(Document[n].name, Document[n].fields[i].name)

\* ------------------------------------------------------------------------
\* C18
\* ------------------------------------------------------------------------

\* The entity directive of t carries the argument virtual with value true.
EntityDirectiveSaysVirtual(t) ==
    \E d \in Range(t.directives) :
        /\ d.name = "entity"
        /\ \E a \in Range(d.arguments) : a = <<"virtual", "true">>

\* C18: an entity Object is in the virtual set of the finished model if and
\* only if its entity directive carries the argument virtual with value
\* true.
C18_VirtualIffDirectiveTrue ==
    Finished =>
        \A n \in Positions : IsEntityAt(n) =>
            (Document[n].name \in M.virtual_type_names
                <=> EntityDirectiveSaysVirtual(Document[n]))

\* ------------------------------------------------------------------------
\* C19
\* ------------------------------------------------------------------------

\* The position carried by entry a under the key of the union at n.
PositionOf(n, a) == EntriesUnder(Document[n].name)[a].parent.child_position[1]

\* Entry a under the key of the union at n comes from a list-typed first
\* occurrence of the merged member fields and carries its merged index.
IsMergedEntry(n, a) ==
    LET fs == MemberFields(n)
    IN  \E k \in 1..Len(fs) :
            /\ IsFirstOccurrence(fs, k)
            /\ is_list_type(fs[k].field)
            /\ EntriesUnder(Document[n].name)[a]
                  = JoinEntry(to_lowercase(Document[n].name), "id",
                              to_lowercase(field_type_name(fs[k].field)),
                              ReferencedColumn(fs[k].field),
                              Some(MergedIndex(fs, k)))

\* C19: in a finished model the entries under every union S have strictly
\* increasing positions; each entry has parent typedef lowercase(S), parent
\* column "id", and as position the index of its field in the sequence of
\* distinct field names of the members walked in declared order (every first
\* occurrence counted, foreign key or not; later occurrences skipped).
C19_UnionMergedPositions ==
    Finished =>
        \A n \in Positions : IsUnionAt(n) =>
            LET entries == EntriesUnder(Document[n].name)
            IN  /\ \A a, b \in 1..Len(entries) :
                      a < b => PositionOf(n, a) < PositionOf(n, b)
                /\ \A a \in 1..Len(entries) : IsMergedEntry(n, a)

\* A union with two entries whose members share a field name and declare a
\* first occurrence that is no foreign key between the two list fields.
C19_Witness ==
    /\ Finished
    /\ \E n \in Positions :
          /\ IsUnionAt(n)
          /\ Len(EntriesUnder(Document[n].name)) >= 2
          /\ \E k \in 1..Len(MemberFields(n)) :
                ~IsFirstOccurrence(MemberFields(n), k)
          /\ \E a \in 1..Len(EntriesUnder(Document[n].name)) :
                PositionOf(n, a) > a

\* ------------------------------------------------------------------------
\* C20
\* ------------------------------------------------------------------------

\* The union at position n has been processed by the pass.
UnionProcessed(n) == pc \in {"loop", "done"} /\ n < next_def /\ IsUnionAt(n)

\* Entry k of the member fields of the union at n is resolvable under the
\* name of the union: "S.f" is paired in field_defs with a member declaring
\* f, and the type name and nullability registered for "S.f" are those of
\* that member's field.
ResolvableUnderUnion(n, k) ==
    LET S == Document[n].name
        fs == MemberFields(n)
        fid == field_id(S, fs[k].field.name)
    IN  /\ fid \in DOMAIN field_defs
        /\ fid \in DOMAIN field_type_mappings
        /\ fid \in DOMAIN field_type_optionality
        /\ S \in DOMAIN object_field_mappings
        /\ fs[k].field.name \in DOMAIN object_field_mappings[S]
        /\ \E j \in 1..Len(fs) :
              /\ fs[j].field.name = fs[k].field.name
              /\ field_defs[fid] = <<fs[j].field, fs[j].member>>
              /\ field_type_mappings[fid] = fs[j].field.ty.base
              /\ field_type_optionality[fid] = fs[j].field.ty.nullable
              /\ object_field_mappings[S][fs[k].field.name] = fs[j].field.ty.base

\* The entries of entry k of the member fields of the union at n under the
\* name of its own member are those of the member's declaration.
MemberEntryUnchanged(n, k) ==
    LET fs == MemberFields(n)
        f == fs[k].field
        B == fs[k].member
        fid == field_id(B, f.name)
    IN  /\ fid \in DOMAIN field_defs
        /\ field_defs[fid] = <<f, B>>
        /\ fid \in DOMAIN field_type_mappings
        /\ field_type_mappings[fid] = f.ty.base
        /\ fid \in DOMAIN field_type_optionality
        /\ field_type_optionality[fid] = f.ty.nullable
        /\ B \in DOMAIN object_field_mappings
        /\ f.name \in DOMAIN object_field_mappings[B]
        /\ object_field_mappings[B][f.name] = f.ty.base

\* C20: once a union S is processed, every field f of every member of S is
\* resolvable under the name of the union ("S.f" in field_defs, paired with
\* a member that declares f, in field_type_mappings, in
\* field_type_optionality and in object_field_mappings[S]), and the
\* members' own entries "B.f" remain present and unchanged.
C20_UnionFieldsResolvable ==
    (result.kind \in {"Pending", "Ok"}) =>
        \A n \in Positions : UnionProcessed(n) =>
            \A k \in 1..Len(MemberFields(n)) :
                /\ ResolvableUnderUnion(n, k)
                /\ MemberEntryUnchanged(n, k)

\* A processed union whose members declare a field name twice with different
\* types.
C20_Witness ==
    /\ result.kind \in {"Pending", "Ok"}
    /\ \E n \in Positions :
          /\ UnionProcessed(n)
          /\ \E j, k \in 1..Len(MemberFields(n)) :
                /\ MemberFields(n)[j].field.name = MemberFields(n)[k].field.name
                /\ MemberFields(n)[j].field.ty # MemberFields(n)[k].field.ty

\* ------------------------------------------------------------------------
\* C21
\* ------------------------------------------------------------------------

\* C21: in a finished model, for every union S and field name f declared by
\* its members, the definition, owning member, type and nullability recorded
\* under "S.f" are those of the first member (in declared order) that
\* declares f, the occurrence the join-table derivation for S considers.
C21_FirstOccurrenceRegistered ==
    Finished =>
        \A n \in Positions : IsUnionAt(n) =>
            LET S == Document[n].name
                fs == MemberFields(n)
            IN  \A k \in 1..Len(fs) : IsFirstOccurrence(fs, k) =>
                    LET fid == field_id(S, fs[k].field.name)
                    IN  /\ M.field_defs[fid] = <<fs[k].field, fs[k].member>>
                        /\ M.field_type_mappings[fid] = fs[k].field.ty.base
                        /\ M.field_type_optionality[fid] = fs[k].field.ty.nullable
                        /\ M.object_field_mappings[S][fs[k].field.name]
                              = fs[k].field.ty.base

\* ------------------------------------------------------------------------
\* C22
\* ------------------------------------------------------------------------

NoTypeNamedLikeAField ==
    \A p \in Positions :
        Document[p].def = "Type" => Document[p].name \notin EntityFieldNames

IsNestedList(f) == f.ty.depth >= 2

\* C23: is_list_type(f) holds exactly of the fields whose type carries one
\* '[' and one ']'; construction never fails with ListTypesUnsupported; in a
\* finished model a nested-list field of an entity T has no join_table_meta
\* entry under T, a nested-list first occurrence among the members of a
\* union S has none under S, and a nested-list field whose named type passes
\* the gate is recorded in foreign_key_mappings like a single-valued one.
C23_NestedListIsNoList ==
    /\ \A f \in DocumentFields : is_list_type(f) <=> f.ty.depth = 1
    /\ result.error # "ListTypesUnsupported"
    /\ Finished =>
          /\ \A n \in Positions : IsEntityAt(n) =>
                \A i \in FieldIndices(n) :
                    IsNestedList(Document[n].fields[i]) =>
                        /\ NoEntryUnderOwner(n, i)
                        /\ GateAtMoment(n, i) =>
                              /\ HasForeignKey(Document[n].name,
                                               Document[n].fields[i].name)
                              /\ M.foreign_key_mappings
                                    [to_lowercase(Document[n].name)]
                                    [Document[n].fields[i].name]
                                    = <<to_lowercase(Document[n].fields[i].ty.base),
                                        ReferencedColumn(Document[n].fields[i])>>
          /\ \A n \in Positions : IsUnionAt(n) =>
                \A k \in 1..Len(MemberFields(n)) :
                    (/\ IsFirstOccurrence(MemberFields(n), k)
                     /\ IsNestedList(MemberFields(n)[k].field))
                        => EntriesAt(Document[n].name,
                                     MergedIndex(MemberFields(n), k)) = {}

\* A finished model of an entity with a nested-list field whose named type
\* passes the gate and a list field that yields an entry.
C23_Witness ==
    /\ Finished
    /\ \E n \in Positions : IsEntityAt(n) /\ \E i, j \in FieldIndices(n) :
          /\ IsNestedList(Document[n].fields[i])
          /\ GateAtMoment(n, i)
          /\ is_list_type(Document[n].fields[j])
          /\ ~NoEntryUnderOwner(n, j)

\* ------------------------------------------------------------------------
\* C24
\* ------------------------------------------------------------------------

IsEnumAt(n) == Document[n].def = "Type" /\ Document[n].kind = "Enum"

\* C24: in a finished model, for every Enum E of the document: has_type(E)
\* and is_enum_typedef(E) hold, E is in the virtual set, every value v of E
\* has object_field_mappings[E][v] = E and field_type_mappings["E.v"] = E;
\* E is not among the parsed-typedef names, no field of type E is recorded
\* as a foreign key, E is no side of a join table, and E is absent from
\* typedef_names_to_types.
C24_EnumRegistration ==
    Finished =>
        \A n \in Positions : IsEnumAt(n) =>
            LET E == Document[n].name
            IN  /\ has_type(M, E)
                /\ is_enum_typedef(M, E)
                /\ E \in M.virtual_type_names
                /\ \A v \in Range(Document[n].values) :
                      /\ M.object_field_mappings[E][v] = E
                      /\ M.field_type_mappings[field_id(E, v)] = E
                /\ E \notin M.parsed_typedef_names
                /\ \A p \in Positions : IsEntityAt(p) =>
                      \A i \in FieldIndices(p) :
                          Document[p].fields[i].ty.base = E
                              => ~HasForeignKey(Document[p].name,
                                                Document[p].fields[i].name)
                /\ E \notin DOMAIN M.join_table_meta
                /\ \A e \in JoinTableMetas :
                      /\ e.parent.typedef_name # to_lowercase(E)
                      /\ e.child.typedef_name # to_lowercase(E)
                /\ to_lowercase(E) \notin DOMAIN M.typedef_names_to_types

\* ------------------------------------------------------------------------
\* C25
\* ------------------------------------------------------------------------

\* The content the schema of this run was built from: its text without the
\* appended fragment.
Content ==
    Text(schema[1].schema.parses,
         SubSeq(schema[1].schema.defs, 1, Len(schema[1].schema.defs) - 1))

\* The content followed by the index-metadata fragment.
ContentWithFragment ==
    [parses |-> Content.parses, defs |-> Append(Content.defs, IndexMetadataEntity)]

\* C25: for the content c of every run, GraphQLSchema::new(c) and
\* GraphQLSchema::from(c) store the same schema text, c followed by the
\* index-metadata fragment; the version of new is the hash of that text, the
\* version of from is the hash of c alone, and the two hashed inputs differ.
\* The schema of the run is one of the two.
C25_ConstructorsHashDifferentInputs ==
    schema # None =>
        /\ GraphQLSchema_new(Content).schema = ContentWithFragment
        /\ GraphQLSchema_from(Content).schema = ContentWithFragment
        /\ GraphQLSchema_new(Content).version = [sha256 |-> ContentWithFragment]
        /\ GraphQLSchema_from(Content).version = [sha256 |-> Content]
        /\ GraphQLSchema_new(Content).version.sha256
              # GraphQLSchema_from(Content).version.sha256
        /\ schema[1] \in {GraphQLSchema_new(Content), GraphQLSchema_from(Content)}

\* A model has been constructed from a schema built by the From conversion.
C25_Witness ==
    /\ Finished
    /\ Content.defs # <<>>
    /\ schema[1] = GraphQLSchema_from(Content)
    /\ schema[1] # GraphQLSchema_new(Content)

\* ------------------------------------------------------------------------
\* C26
\* ------------------------------------------------------------------------

HasUnderscore(name) == \E n \in 1..Len(name) : name[n] = "_"

\* join_table_typedefs_name has returned the pair (a, b).
Returned(a, b) == typedefs = Some([panic |-> FALSE, pair |-> <<a, b>>])

\* C26: the join-table name of (a, b) is a, "s_", b, "s"; applied to it,
\* join_table_typedefs_name returns (a, b) when a and b are non-empty and
\* contain no underscore, and does not return (a, b) when a or b contains an
\* underscore.
C26_TypedefsNameInverse ==
    /\ joined_name # None =>
          joined_name[1] = names[1] \o <<"s", "_">> \o names[2] \o <<"s">>
    /\ typedefs # None =>
          /\ (/\ names[1] # <<>>
              /\ names[2] # <<>>
              /\ ~HasUnderscore(names[1])
              /\ ~HasUnderscore(names[2])) => Returned(names[1], names[2])
          /\ (HasUnderscore(names[1]) \/ HasUnderscore(names[2]))
                => ~Returned(names[1], names[2])

\* join_table_typedefs_name has returned a pair for names of which the
\* second one contains an underscore.
C26_Witness ==
    /\ typedefs # None
    /\ ~typedefs[1].panic
    /\ names[1] # <<>>
    /\ names[2] # <<>>
    /\ HasUnderscore(names[2])

\* ------------------------------------------------------------------------
\* C27
\* ------------------------------------------------------------------------

\* The ordered fields kept for the type named T.
OrderedFields(T) ==
    IF T \in DOMAIN M.object_ordered_fields
    THEN M.object_ordered_fields[T]
    ELSE <<>>

\* C27: in a finished model, for every entity Object T,
\* object_ordered_fields[T] has one element per declared field, the k-th
\* being the k-th declared field with ordinal k (zero-based), and every
\* join_table_meta entry under T carries as position the ordinal stored for
\* a list field of T whose type is the child of the entry.
C27_OrderedFields ==
    Finished =>
        \A n \in Positions : IsEntityAt(n) =>
            LET T == Document[n].name
            IN  /\ Len(OrderedFields(T)) = Len(Document[n].fields)
                /\ \A k \in FieldIndices(n) :
                      OrderedFields(T)[k] = <<Document[n].fields[k], k - 1>>
                /\ \A e \in Range(EntriesUnder(T)) :
                      \E k \in 1..Len(OrderedFields(T)) :
                          /\ is_list_type(OrderedFields(T)[k][1])
                          /\ e.parent.child_position
                                = Some(OrderedFields(T)[k][2])
                          /\ e.child.typedef_name
                                = to_lowercase(OrderedFields(T)[k][1].ty.base)

\* A finished model with an entry under an entity for its third field.
C27_Witness ==
    /\ Finished
    /\ \E n \in Positions :
          /\ IsEntityAt(n)
          /\ Len(OrderedFields(Document[n].name)) >= 3
          /\ EntriesAt(Document[n].name, 2) # {}

\* ------------------------------------------------------------------------
\* C28
\* ------------------------------------------------------------------------

\* The loop is at a union declaration.
AtUnion ==
    /\ pc = "loop"
    /\ next_def \in 1..Len(ast)
    /\ ast[next_def].def = "Type"
    /\ ast[next_def].kind = "Union"

\* In a finished model no union has foreign_key_mappings entries or an
\* ordered-field list of its own.
UnionsOwnNoFields ==
    Finished =>
        \A n \in Positions : IsUnionAt(n) =>
            /\ to_lowercase(Document[n].name) \notin DOMAIN M.foreign_key_mappings
            /\ Document[n].name \notin DOMAIN M.object_ordered_fields

\* C28: the step that processes a union declaration leaves
\* foreign_key_mappings, object_ordered_fields, objects, enum_names,
\* list_field_types and list_type_defs as they were; in a finished model a
\* union has no foreign_key_mappings entries and no ordered-field list of
\* its own.
C28_UnionFrame ==
    /\ []UnionsOwnNoFields
    /\ [][AtUnion =>
            UNCHANGED <<foreign_key_mappings, object_ordered_fields, objects,
                        enum_names, list_field_types, list_type_defs>>]_vars

\* A finished model with entries under a union one of whose members has
\* foreign keys.
C28_Witness ==
    /\ Finished
    /\ \E n \in Positions :
          /\ IsUnionAt(n)
          /\ EntriesUnder(Document[n].name) # <<>>
          /\ \E m \in Range(Document[n].members) :
                to_lowercase(m) \in DOMAIN M.foreign_key_mappings

\* ------------------------------------------------------------------------
\* C29
\* ------------------------------------------------------------------------

\* The ids of the values of the enums of the document.
EnumValueIds ==
    UNION {{field_id(Document[n].name, v) : v \in Range(Document[n].values)} :
              n \in {p \in Positions : IsEnumAt(p)}}

\* key is the id "O.f" of a field f recorded for O in object_field_mappings,
\* and the type names kept for it agree with the definition in field_defs.
ConsistentFieldKey(key) ==
    \E O \in DOMAIN M.object_field_mappings :
        \E f \in DOMAIN M.object_field_mappings[O] :
            /\ key = field_id(O, f)
            /\ M.field_defs[key][1].name = f
            /\ key \in DOMAIN M.field_type_mappings
            /\ M.field_type_mappings[key] = M.field_defs[key][1].ty.base
            /\ M.field_type_mappings[key] = M.object_field_mappings[O][f]

\* C29: in a finished model field_defs and field_type_optionality have the
\* same keys; every such key "O.f" is a key of field_type_mappings whose
\* value is the stripped type name of the definition in field_defs and
\* equals object_field_mappings[O][f]; the keys of field_type_mappings
\* without a field_defs entry are ids "E.v" of enum values.
C29_FieldIndicesConsistent ==
    Finished =>
        /\ DOMAIN M.field_defs = DOMAIN M.field_type_optionality
        /\ \A key \in DOMAIN M.field_defs : ConsistentFieldKey(key)
        /\ (DOMAIN M.field_type_mappings) \ (DOMAIN M.field_defs)
              \subseteq EnumValueIds

\* A finished model with fields of entities, fields cached for a union and
\* enum values.
C29_Witness ==
    /\ Finished
    /\ (DOMAIN M.field_type_mappings) \ (DOMAIN M.field_defs) # {}
    /\ \E n \in Positions :
          /\ IsUnionAt(n)
          /\ \E k \in 1..Len(MemberFields(n)) :
                field_id(Document[n].name, MemberFields(n)[k].field.name)
                    \in DOMAIN M.field_defs

\* ------------------------------------------------------------------------
\* C30
\* ------------------------------------------------------------------------

\* No index has been written and the type names are those of the base schema.
AnalysisSkipped ==
    /\ ast = BaseAst
    /\ type_names = scalar_names
    /\ parsed_typedef_names = {} /\ enum_names = {} /\ union_names = {}
    /\ virtual_type_names = {} /\ list_field_types = {}
    /\ \A index \in {object_field_mappings, field_type_mappings, objects,
                     field_defs, field_type_optionality, foreign_key_mappings,
                     type_defs, list_type_defs, unions, join_table_meta,
                     object_ordered_fields} : DOMAIN index = {}

\* C30: a call with no schema skips the analysis pass, never yields Ok and
\* ends in the abort of the unwrap of the absent schema.
C30_NoSchemaNoModel ==
    schema = None =>
        /\ AnalysisSkipped
        /\ result.kind # "Ok"
        /\ Done => result.kind = "Panic"

\* The call with no schema has ended.
C30_Witness == schema = None /\ Done /\ result.kind = "Panic"

====
